---- MODULE Spec2Model ----
(***************************************************************************)
(* State-machine model of the CoverImageUpload widget                      *)
(* (src/src/components/common/CoverImageUpload.tsx): the session state     *)
(* held in React hooks, the event handlers, and the asynchronous           *)
(* ingestion pipeline (file read, raster load, fit-to-budget encode        *)
(* passes, read-back of the encoded blob).  Every await of the source is   *)
(* a point where an ingestion rests; the step that resumes it is one       *)
(* action.                                                                 *)
(***************************************************************************)
EXTENDS Integers, Sequences, FiniteSets, TLC

(***************************************************************************)
(* Bounds of the model.                                                    *)
(***************************************************************************)
\* Ingestions that may be awaiting a callback at the same time.
MaxTasks == 2
\* Ingestions that may be inside compressToFit at the same time.
MaxCompressing == 1
\* confirmPopup calls made.
MaxConfirms == 3
\* Auth operations in flight at the same time, the mount-time check included.
MaxAuthTasks == 2
\* getAllReadingLists calls in flight at the same time.
MaxApiCalls == 2
\* Requests of the ReadingLists page in flight at the same time.
MaxPageTasks == 2
\* Reading lists created during a session of the page.
MaxCreated == 2
\* Options given to a SearchableMultiSelect.
MaxOptions == 4

(***************************************************************************)
(* Program constants.                                                      *)
(***************************************************************************)
\* for (let pass = 0; pass < 10; pass++)
MaxPasses == 10
\* let quality = 0.85, in hundredths
InitialQuality == 85
\* if (quality > 0.55) / Math.max(0.55, ...), in hundredths
QualityFloor == 55
\* quality - 0.1, in hundredths
QualityStep == 10
\* maxSizeMB = 2 (default prop)
DefaultMaxSizeMB == 2

(***************************************************************************)
(* Optional values: null / undefined is the empty sequence.                *)
(***************************************************************************)
None == << >>
Some(x) == << x >>
IsSome(o) == Len(o) = 1
Get(o) == o[1]

Max2(a, b) == IF a >= b THEN a ELSE b
CeilDiv(a, b) == (a + b - 1) \div b

\* String.prototype.startsWith
StartsWith(s, p) == Len(s) >= Len(p) /\ SubSeq(s, 1, Len(p)) = p

(***************************************************************************)
(* Configuration (props).  The sizes are integers, on which Math.round is  *)
(* the identity.                                                           *)
(***************************************************************************)
\* maxSizeMB values tried
MaxSizeMBChoices == {DefaultMaxSizeMB}
\* maxEncodedKB values tried: undefined, or a number of KB
MaxEncodedKBChoices == {None, Some(1)}

\* const maxBytes = Math.round(maxSizeMB * 1024 * 1024)
MaxBytesOf(mb) == mb * 1024 * 1024
\* typeof maxEncodedKB === 'number' ? Math.round(maxEncodedKB * 1024) : undefined
MaxEncodedBytesOf(kb) == IF IsSome(kb) THEN Some(Get(kb) * 1024) ELSE None

(***************************************************************************)
(* formatBytes: the text is [scaled, fixed, unit], the number printed      *)
(* being scaled / 10^fixed with `fixed` decimals.                          *)
(***************************************************************************)
Units == << "B", "KB", "MB", "GB" >>

RECURSIVE Pow1024(_)
Pow1024(i) == IF i = 0 THEN 1 ELSE 1024 * Pow1024(i - 1)

\* Math.min(units.length - 1, Math.floor(Math.log(bytes) / Math.log(1024)))
UnitIndex(bytes) ==
    IF bytes < 1024 THEN 0
    ELSE IF bytes < 1024 * 1024 THEN 1
    ELSE IF bytes < 1024 * 1024 * 1024 THEN 2
    ELSE 3

\* Number.prototype.toFixed of num/den (den a power of two, so the double is
\* exact): the nearest multiple of 10^-decimals, halves up, times 10^decimals.
ToFixed(num, den, decimals) ==
    LET m == IF decimals = 0 THEN 1 ELSE 10
    IN  (2 * num * m + den) \div (2 * den)

FormatBytes(bytes) ==
    IF bytes <= 0 THEN [scaled |-> 0, fixed |-> 0, unit |-> "B"]
    ELSE LET i == UnitIndex(bytes)
             den == Pow1024(i)
             decimals == IF bytes >= 10 * den \/ i = 0 THEN 0 ELSE 1
         IN  [scaled |-> ToFixed(bytes, den, decimals),
              fixed  |-> decimals,
              unit   |-> Units[i + 1]]

(***************************************************************************)
(* Error texts.                                                            *)
(***************************************************************************)
\* `File exceeds size limit. Please upload a file smaller than ${formatBytes(maxBytes)}.`
MsgFileTooLarge(maxBytes) ==
    [kind |-> "FileTooLarge", limit |-> Some(FormatBytes(maxBytes))]
\* 'Please choose an image file (PNG, JPG, WEBP, GIF).'
MsgNotAnImage == [kind |-> "NotAnImage", limit |-> None]
\* 'Failed to read file. Please try again.'
MsgReadFailed == [kind |-> "ReadFailed", limit |-> None]
\* `Image is too large to store. ... (limit: ${formatBytes(maxEncodedBytes)}).`
MsgTooLargeToStore(maxEncodedBytes) ==
    [kind |-> "TooLargeToStore", limit |-> Some(FormatBytes(maxEncodedBytes))]

(***************************************************************************)
(* Files and encoded values.                                               *)
(***************************************************************************)
File(name, size, type) == [name |-> name, size |-> size, type |-> type]

\* The files a user may pick or drop: around the raw limit and around the
\* encoded budget, image and non-image.  The data URL of edge.jpg is
\* Len("data:image/pjpeg;base64,") + 4 * 250 = 1024 characters long, exactly
\* the budget of 1 KB.
Files ==
    { File("edge.jpg", 750, "image/pjpeg"),
      File("max.png", MaxBytesOf(DefaultMaxSizeMB), "image/png"),
      File("over.png", MaxBytesOf(DefaultMaxSizeMB) + 1, "image/png"),
      File("notes.txt", 600, "text/plain"),
      File("dump.txt", MaxBytesOf(DefaultMaxSizeMB) + 1, "text/plain") }

\* The string values handed to the sink or held by the parent.
EmptyValue == [kind |-> "empty", mime |-> "", len |-> 0, of |-> ""]
ExistingUrl == [kind |-> "url", mime |-> "", len |-> 27, of |-> "existing"]

\* Length of the base64 text of n bytes.
Base64Len(n) == 4 * CeilDiv(n, 3)

\* Mutant: the base64 payload alone, without the "data:<type>;base64," header.
ReadAsDataURLPayloadOnly(type, size, origin) ==
    [kind |-> "data", mime |-> "", len |-> Base64Len(size), of |-> origin]

\* FileReader.readAsDataURL: "data:" + type + ";base64," + base64(bytes).
ReadAsDataURL(type, size, origin) ==
    [kind |-> "data",
     mime |-> type,
     len  |-> Len("data:") + Len(type) + Len(";base64,") + Base64Len(size),
     of   |-> origin]

\* new TextEncoder().encode(dataUrl).length
dataUrlByteLength(dataUrl) == dataUrl.len

\* Sizes a canvas.toBlob result may have against a budget: at it and over it.
BlobSizes(target) == {target, target + 1}

VARIABLES
    maxSizeMB,      \* prop
    maxEncodedKB,   \* prop: None (undefined) or Some(number)
    disabled,       \* prop
    value,          \* prop: the parent's image value, set through onChange
    isDestroyed,    \* useState(false)
    error,          \* useState(null): None or Some(message)
    lastFileMeta,   \* useState(null): None or Some([name, size])
    isDragging,     \* useState(false)
    tasks,          \* ingestions resting at an await, oldest first
    objectUrls,     \* object URLs created (URL.createObjectURL) and not
                    \* yet revoked
    sunk,           \* the values the last step handed to onChange, in order
    ended           \* the ingestion the last step ended, if any: Some of its
                    \* file name and the over-budget passes it made

\* inputKey, the React key of the <input> that every handler bumps
\* (setInputKey((k) => k + 1)), is read by nothing but the key attribute: it
\* remounts the element and has no part in the state modelled here.

uploadVars == << maxSizeMB, maxEncodedKB, disabled, value, isDestroyed, error,
                 lastFileMeta, isDragging, tasks, objectUrls, sunk, ended >>

\* The confirm bus of src/src/utils/confirm.ts: the listeners on
\* 'app-confirm-result' that confirmPopup calls have registered, and their
\* promises.  A call is known by its id.
VARIABLES
    issued,         \* the number of confirmPopup calls made; makeId gave
                    \* them the ids 1 .. issued
    listeners,      \* the ids whose handler is registered on RESULT_EVENT
    promise,        \* per id: None while pending, Some(ok) once resolved
    resolves,       \* per id: the number of times resolve was called
    requests,       \* the ids dispatched on REQUEST_EVENT, in order
    lastEvent       \* the RESULT_EVENT the last step dispatched, if any:
                    \* Some of its detail (None, or Some([id, ok]))

confirmVars == << issued, listeners, promise, resolves, requests, lastEvent >>

\* ConfirmViewport of src/src/components/common/ScrollToTop.tsx, the host of
\* the confirmation dialog.
VARIABLES
    subscribed,     \* the mount effect has run: the listener that
                    \* onConfirmRequest registers is on REQUEST_EVENT
    queue,          \* useState([]): the ids of the pending confirms
    received,       \* the ids the request listener was called with, in order
    answered        \* the ids closeWith emitted a result for, in order

viewVars == << subscribed, queue, received, answered >>

\* AuthProvider of src/src/contexts/AuthContext.tsx and the Cognito session
\* behind aws-amplify/auth.
VARIABLES
    user,           \* useState(null): None or Some of the signed-in user's id
    isLoading,      \* useState(true)
    session,        \* the Cognito session: None or Some(account)
    authTasks,      \* the auth operations resting at an await
    loggedOut,      \* a logout has completed with a successful signOut and
                    \* no login() called after it has succeeded since
    settled         \* how the last step ended an operation, if it did:
                    \* Some([op, outcome])

authVars == << user, isLoading, session, authTasks, loggedOut, settled >>

\* getAllReadingLists of src/src/services/api.ts.
VARIABLES
    apiCalls,       \* the getAllReadingLists calls resting at an await
    returned        \* how the last step ended a call, if it did:
                    \* Some([outcome, lists])

apiVars == << apiCalls, returned >>

\* The ReadingLists page of src/src/pages/ReadingLists.tsx and the lists the
\* server holds.
VARIABLES
    lists,          \* useState([]): the lists displayed, each [id, edited]
    listsLoading,   \* isLoading, useState(true)
    isModalOpen,    \* useState(false)
    newListName,    \* useState('')
    isEditModalOpen, \* useState(false)
    editListId,     \* useState(null): None or Some(id)
    editListName,   \* useState('')
    pageTasks,      \* the requests of the page resting at an await
    stored,         \* the ids of the lists the server holds
    created,        \* the number of lists the server has created
    deleted         \* the ids whose deleteReadingList resolved on this page

pageVars == << lists, listsLoading, isModalOpen, newListName, isEditModalOpen,
               editListId, editListName, pageTasks, stored, created, deleted >>

\* SearchableMultiSelect of src/unnamed/part_003.
VARIABLES
    options,        \* prop: the options, each known by its label
    pageSize,       \* prop: None (undefined) or Some(number)
    selectDisabled, \* prop disabled
    isOpen,         \* useState(false)
    query,          \* useState('')
    currentPage     \* useState(1)

selectVars == << options, pageSize, selectDisabled, isOpen, query, currentPage >>

vars == << uploadVars, confirmVars, viewVars, authVars, apiVars, pageVars,
           selectVars >>

\* The accounts of the user pool.
Accounts == {"ann", "bob"}

\* An auth operation at its first await.  who is the cognitoUser that
\* getCurrentUser gave it; early marks an operation that was in flight when
\* a logout completed.
AuthTask(op, pc, email) ==
    [op |-> op, pc |-> pc, email |-> email, who |-> None, early |-> FALSE]

\* The provider as mounted: user null, isLoading true, checkAuth() called
\* by the mount effect and resting at await getCurrentUser(); s the session
\* the browser holds.
AuthIdle(s) ==
    /\ user = None
    /\ isLoading = TRUE
    /\ session = s
    /\ authTasks = << AuthTask("checkAuth", "getCurrentUser", None) >>
    /\ loggedOut = FALSE
    /\ settled = None

\* No getAllReadingLists call made.
ApiIdle ==
    /\ apiCalls = << >>
    /\ returned = None

\* The ReadingLists page as mounted: loadLists() called by the mount effect
\* and resting at await getReadingLists(); s the ids the server holds.
PageIdle(s) ==
    /\ lists = << >>
    /\ listsLoading = TRUE
    /\ isModalOpen = FALSE
    /\ newListName = ""
    /\ isEditModalOpen = FALSE
    /\ editListId = None
    /\ editListName = ""
    /\ pageTasks = << [op |-> "load", id |-> 0, seen |-> << >>] >>
    /\ stored = s
    /\ created = 0
    /\ deleted = {}

\* The SearchableMultiSelect as mounted with these props.
SelectIdle(opts, size) ==
    /\ options = opts
    /\ pageSize = size
    /\ selectDisabled = FALSE
    /\ isOpen = FALSE
    /\ query = << >>
    /\ currentPage = 1

\* The confirm bus before any confirmPopup call, no ConfirmViewport
\* subscribed yet.
ConfirmIdle ==
    /\ issued = 0
    /\ listeners = {}
    /\ promise = [id \in 1..MaxConfirms |-> None]
    /\ resolves = [id \in 1..MaxConfirms |-> 0]
    /\ requests = << >>
    /\ lastEvent = None
    /\ subscribed = FALSE
    /\ queue = << >>
    /\ received = << >>
    /\ answered = << >>

props == << maxSizeMB, maxEncodedKB >>

maxBytes == MaxBytesOf(maxSizeMB)
maxEncodedBytes == MaxEncodedBytesOf(maxEncodedKB)

\* Mutant: the destroyed flag left out of canInteract.
canInteractIgnoringDestroyed == ~disabled

\* const canInteract = !disabled && !isDestroyed
canInteract == ~disabled /\ ~isDestroyed


(***************************************************************************)
(* Ingestions.  A task is one call of readFileAsDataUrl that has passed    *)
(* validation and rests at an await:                                       *)
(*   reading    the FileReader of the raw file (line 187)                  *)
(*   loading    the Image of loadImageFromBlob (line 106)                  *)
(*   encoding   canvas.toBlob of pass `pass` (line 151)                    *)
(*   rereading  the FileReader of the encoded blob (line 153)              *)
(* quality is in hundredths; shrinks counts the multiplications of scale   *)
(* by 0.85; blob is the size of the blob being read back.                   *)
(***************************************************************************)
NewTask(f) ==
    [file |-> f, pc |-> "reading", pass |-> 0, quality |-> 0, shrinks |-> 0,
     blob |-> 0]

Remove(ts, i) == SubSeq(ts, 1, i - 1) \o SubSeq(ts, i + 1, Len(ts))

\* Mutant: the size test made inclusive.
ExceedsRawLimitInclusive(f) == f.size >= maxBytes

\* if (file.size > maxBytes)
ExceedsRawLimit(f) == f.size > maxBytes

\* Mutant: the type test dropped.
IsImageTypeAny(f) == TRUE

\* file.type.startsWith('image/')
IsImageType(f) == StartsWith(f.type, "image/")

\* Mutant: the budget test made inclusive.
NeedsCompressionInclusive(dataUrl) ==
    /\ IsSome(maxEncodedBytes)
    /\ dataUrlByteLength(dataUrl) >= Get(maxEncodedBytes)

\* typeof maxEncodedBytes === 'number' && encodedBytes > maxEncodedBytes
NeedsCompression(dataUrl) ==
    /\ IsSome(maxEncodedBytes)
    /\ dataUrlByteLength(dataUrl) > Get(maxEncodedBytes)

\* Mutant: the pass test made strict.
FitsBudgetStrict(blobSize, targetBytes) == blobSize < targetBytes

\* if (blob.size <= targetBytes)
FitsBudget(blobSize, targetBytes) == blobSize <= targetBytes

\* if (quality > 0.55) quality = Math.max(0.55, quality - 0.1)
NextQuality(q) ==
    IF q > QualityFloor THEN Max2(QualityFloor, q - QualityStep) ELSE q

\* Mutant: scale reduced on every over-budget pass.
NextShrinksAlways(q, k) == k + 1

\* else scale *= 0.85
NextShrinks(q, k) == IF q > QualityFloor THEN k ELSE k + 1

(***************************************************************************)
(* The raster of a pass.  A source raster is (img.naturalWidth ||          *)
(* img.width, img.naturalHeight || img.height); scale is the fraction      *)
(* num / den, and scale *= 0.85 multiplies it by 17 / 20.  The raster an   *)
(* ingestion decodes and maxDimension are fixed for the whole search, so   *)
(* the canvas of a pass is a function of them and of the task's shrinks.   *)
(***************************************************************************)
Raster(w, h) == [w |-> w, h |-> h]

\* Source rasters tried: empty, within maxDimension, over it on either side,
\* and thin enough for a side to round to 0.
Rasters ==
    { Raster(0, 0), Raster(1, 1), Raster(3, 2), Raster(4, 4), Raster(10, 5),
      Raster(5, 10), Raster(16, 1), Raster(9, 9) }

\* maxDimension values tried (pixels)
MaxDimensionChoices == {2, 4}

Frac(n, d) == [num |-> n, den |-> d]

RECURSIVE Pow(_, _)
Pow(b, k) == IF k = 0 THEN 1 ELSE b * Pow(b, k - 1)

\* const longest = Math.max(width, height)
Longest(img) == Max2(img.w, img.h)

\* Mutant: the cap on the longest side dropped.
InitialScaleUncapped(img, maxDimension) == Frac(1, 1)

\* let scale = 1; if (longest > maxDimension) scale = maxDimension / longest
InitialScale(img, maxDimension) ==
    IF Longest(img) > maxDimension
    THEN Frac(maxDimension, Longest(img))
    ELSE Frac(1, 1)

\* scale after k executions of scale *= 0.85
ScaleAfter(img, maxDimension, k) ==
    LET s0 == InitialScale(img, maxDimension)
    IN  Frac(s0.num * Pow(17, k), s0.den * Pow(20, k))

\* Math.round of n / d >= 0: the nearest integer, halves up
Round(n, d) == (n \div d) + (IF 2 * (n % d) >= d THEN 1 ELSE 0)

\* Math.max(1, Math.round(side * scale))
CanvasSide(side, scale) == Max2(1, Round(side * scale.num, scale.den))

(***************************************************************************)
(* The initial state: the component as mounted, its mount effect run, and  *)
(* no confirmPopup call made.                                              *)
(***************************************************************************)
Init ==
    /\ ConfirmIdle
    /\ AuthIdle(None)
    /\ ApiIdle
    /\ PageIdle({})
    /\ SelectIdle(<< >>, None)
    /\ maxSizeMB \in MaxSizeMBChoices
    /\ maxEncodedKB \in MaxEncodedKBChoices
    /\ disabled = FALSE
    /\ value \in {EmptyValue, ExistingUrl}
    /\ isDestroyed = FALSE
    /\ error = None
    /\ lastFileMeta = None
    /\ isDragging = FALSE
    /\ tasks = << >>
    /\ objectUrls = 0
    /\ sunk = << >>
    /\ ended = None

\* Mutant: the sink called twice.
onChangeTwice(next) ==
    /\ value' = next
    /\ sunk' = << next, next >>

\* onChange(next): the parent stores the value it is handed.
onChange(next) ==
    /\ value' = next
    /\ sunk' = << next >>

NoSink == UNCHANGED value /\ sunk' = << >>

\* The step ends no ingestion.
NoEnd == ended' = None

(***************************************************************************)
(* Parent-driven changes.                                                  *)
(***************************************************************************)
\* Mutant: the reset effect without setIsDestroyed(false).
ResetSignalChangeKeepsDestroyed ==
    /\ error' = None
    /\ lastFileMeta' = None
    /\ isDragging' = FALSE
    /\ NoSink
    /\ NoEnd
    /\ UNCHANGED << props, disabled, isDestroyed, tasks >>
    /\ UNCHANGED objectUrls
    /\ UNCHANGED << confirmVars, viewVars, authVars, apiVars, pageVars,
                 selectVars >>

\* useEffect(..., [resetSignal]): the parent passes a new token.
ResetSignalChange ==
    /\ isDestroyed' = FALSE
    /\ error' = None
    /\ lastFileMeta' = None
    /\ isDragging' = FALSE
    /\ NoSink
    /\ NoEnd
    /\ UNCHANGED << props, disabled, tasks >>
    /\ UNCHANGED objectUrls
    /\ UNCHANGED << confirmVars, viewVars, authVars, apiVars, pageVars,
                 selectVars >>

\* The parent flips the disabled prop.
SetDisabled ==
    /\ disabled' = ~disabled
    /\ NoSink
    /\ NoEnd
    /\ UNCHANGED << props, isDestroyed, error, lastFileMeta, isDragging,
                    tasks >>
    /\ UNCHANGED objectUrls
    /\ UNCHANGED << confirmVars, viewVars, authVars, apiVars, pageVars,
                 selectVars >>

(***************************************************************************)
(* readFileAsDataUrl up to its first await, with the catch / finally of    *)
(* the handler that called it when it returns early.                       *)
(***************************************************************************)
\* The file passes both checks of readFileAsDataUrl.
Accepted(f) == ~ExceedsRawLimit(f) /\ IsImageType(f)

\* The selection of f is within the bound on ingestions in flight.
CanSelect(f) == Accepted(f) => Len(tasks) < MaxTasks

\* Mutant: the type rejection returns without setError.
readFileAsDataUrlSilentType(f) ==
    IF ExceedsRawLimit(f)
    THEN /\ UNCHANGED << lastFileMeta, tasks >>
         /\ error' = Some(MsgFileTooLarge(maxBytes))
    ELSE IF ~IsImageType(f)
    THEN UNCHANGED << lastFileMeta, tasks, error >>
    ELSE /\ error' = None
         /\ lastFileMeta' = Some([name |-> f.name, size |-> f.size])
         /\ tasks' = Append(tasks, NewTask(f))

\* Mutant: setLastFileMeta moved before the type check.
readFileAsDataUrlMetaFirst(f) ==
    IF ExceedsRawLimit(f)
    THEN /\ UNCHANGED << lastFileMeta, tasks >>
         /\ error' = Some(MsgFileTooLarge(maxBytes))
    ELSE IF ~IsImageType(f)
    THEN /\ lastFileMeta' = Some([name |-> f.name, size |-> f.size])
         /\ UNCHANGED tasks
         /\ error' = Some(MsgNotAnImage)
    ELSE /\ error' = None
         /\ lastFileMeta' = Some([name |-> f.name, size |-> f.size])
         /\ tasks' = Append(tasks, NewTask(f))

readFileAsDataUrl(f) ==
    IF ExceedsRawLimit(f)
    THEN /\ UNCHANGED << lastFileMeta, tasks >>
         /\ error' = Some(MsgFileTooLarge(maxBytes))
    ELSE IF ~IsImageType(f)
    THEN /\ UNCHANGED << lastFileMeta, tasks >>
         /\ error' = Some(MsgNotAnImage)
    ELSE /\ error' = None
         /\ lastFileMeta' = Some([name |-> f.name, size |-> f.size])
         /\ tasks' = Append(tasks, NewTask(f))

(***************************************************************************)
(* User events.  onDrop, onBrowse and the drag handlers test canInteract   *)
(* themselves and are modelled in every state; the change event of the     *)
(* <input> needs the element mounted and enabled (it is rendered only      *)
(* while not destroyed, with disabled={!canInteract}).                     *)
(***************************************************************************)
onDragOver ==
    /\ isDragging' = (IF canInteract THEN TRUE ELSE isDragging)
    /\ NoSink
    /\ NoEnd
    /\ UNCHANGED << props, disabled, isDestroyed, error, lastFileMeta,
                    tasks >>
    /\ UNCHANGED objectUrls
    /\ UNCHANGED << confirmVars, viewVars, authVars, apiVars, pageVars,
                 selectVars >>

onDragLeave ==
    /\ isDragging' = FALSE
    /\ NoSink
    /\ NoEnd
    /\ UNCHANGED << props, disabled, isDestroyed, error, lastFileMeta,
                    tasks >>
    /\ UNCHANGED objectUrls
    /\ UNCHANGED << confirmVars, viewVars, authVars, apiVars, pageVars,
                 selectVars >>

\* onDrop with e.dataTransfer.files[0] = f
onDrop(f) ==
    /\ canInteract => CanSelect(f)
    /\ isDragging' = FALSE
    /\ NoSink
    /\ NoEnd
    /\ IF ~canInteract
       THEN UNCHANGED << error, lastFileMeta, tasks >>
       ELSE readFileAsDataUrl(f)
    /\ UNCHANGED << props, disabled, isDestroyed >>
    /\ UNCHANGED objectUrls
    /\ UNCHANGED << confirmVars, viewVars, authVars, apiVars, pageVars,
                 selectVars >>

\* onDrop with no file in the transfer: if (!file) return
onDropNoFile ==
    /\ isDragging' = FALSE
    /\ NoSink
    /\ NoEnd
    /\ UNCHANGED << props, disabled, isDestroyed, error, lastFileMeta,
                    tasks >>
    /\ UNCHANGED objectUrls
    /\ UNCHANGED << confirmVars, viewVars, authVars, apiVars, pageVars,
                 selectVars >>

\* onBrowse (click, Enter or Space): if canInteract, inputRef.current?.click()
\* opens the file dialog; no state of the component changes either way.
onBrowse ==
    /\ NoSink
    /\ NoEnd
    /\ UNCHANGED << props, disabled, isDestroyed, error, lastFileMeta,
                    isDragging, tasks >>
    /\ UNCHANGED objectUrls
    /\ UNCHANGED << confirmVars, viewVars, authVars, apiVars, pageVars,
                 selectVars >>

\* onFileInputChange with e.target.files[0] = f: the change event of the
\* <input>, which is mounted and enabled only while canInteract.
onFileInputChange(f) ==
    /\ canInteract
    /\ CanSelect(f)
    /\ readFileAsDataUrl(f)
    /\ NoSink
    /\ NoEnd
    /\ UNCHANGED << props, disabled, isDestroyed, isDragging >>
    /\ UNCHANGED objectUrls
    /\ UNCHANGED << confirmVars, viewVars, authVars, apiVars, pageVars,
                 selectVars >>

\* destroy (its button is rendered while not destroyed, disabled={disabled})
destroy ==
    /\ ~isDestroyed
    /\ ~disabled
    /\ isDestroyed' = TRUE
    /\ error' = None
    /\ lastFileMeta' = None
    /\ onChange(EmptyValue)
    /\ NoEnd
    /\ UNCHANGED << props, disabled, isDragging, tasks >>
    /\ UNCHANGED objectUrls
    /\ UNCHANGED << confirmVars, viewVars, authVars, apiVars, pageVars,
                 selectVars >>

\* Mutant: reinitialize without setIsDragging(false).
reinitializeKeepsDragging ==
    /\ isDestroyed
    /\ ~disabled
    /\ isDestroyed' = FALSE
    /\ error' = None
    /\ lastFileMeta' = None
    /\ NoSink
    /\ NoEnd
    /\ UNCHANGED << props, disabled, isDragging, tasks >>
    /\ UNCHANGED objectUrls
    /\ UNCHANGED << confirmVars, viewVars, authVars, apiVars, pageVars,
                 selectVars >>

\* reinitialize (its button is rendered while destroyed, disabled={disabled})
reinitialize ==
    /\ isDestroyed
    /\ ~disabled
    /\ isDestroyed' = FALSE
    /\ error' = None
    /\ lastFileMeta' = None
    /\ isDragging' = FALSE
    /\ NoSink
    /\ NoEnd
    /\ UNCHANGED << props, disabled, tasks >>
    /\ UNCHANGED objectUrls
    /\ UNCHANGED << confirmVars, viewVars, authVars, apiVars, pageVars,
                 selectVars >>

\* Mutant: clearImage without setError(null).
clearImageKeepsError ==
    /\ canInteract
    /\ value # EmptyValue
    /\ onChange(EmptyValue)
    /\ NoEnd
    /\ lastFileMeta' = None
    /\ UNCHANGED << props, disabled, isDestroyed, isDragging, tasks, error >>
    /\ UNCHANGED objectUrls
    /\ UNCHANGED << confirmVars, viewVars, authVars, apiVars, pageVars,
                 selectVars >>

\* clearImage (its button: disabled={!canInteract || !value})
clearImage ==
    /\ canInteract
    /\ value # EmptyValue
    /\ onChange(EmptyValue)
    /\ NoEnd
    /\ error' = None
    /\ lastFileMeta' = None
    /\ UNCHANGED << props, disabled, isDestroyed, isDragging, tasks >>
    /\ UNCHANGED objectUrls
    /\ UNCHANGED << confirmVars, viewVars, authVars, apiVars, pageVars,
                 selectVars >>


(***************************************************************************)
(* The asynchronous steps of an ingestion.  Its handler (onDrop or         *)
(* onFileInputChange) ends when readFileAsDataUrl returns or throws: the   *)
(* catch sets the read-failure text.                                       *)
(***************************************************************************)
\* The ingestions inside compressToFit.
Compressing == {i \in DOMAIN tasks : tasks[i].pc # "reading"}

\* The handler's finally, the ingestion being over.
FinishTask(i, over) ==
    /\ tasks' = Remove(tasks, i)
    /\ ended' = Some([file |-> tasks[i].file.name, over |-> over])

\* Mutant: a failure of compressToFit left to the handler's catch, which
\* sets the read-failure text.
CompressionFailedUncaught(i, over) ==
    /\ error' = Some(MsgReadFailed)
    /\ NoSink
    /\ FinishTask(i, over)
    /\ UNCHANGED lastFileMeta

\* catch of readFileAsDataUrl around compressToFit (line 199)
CompressionFailed(i, over) ==
    /\ error' = Some(MsgTooLargeToStore(Get(maxEncodedBytes)))
    /\ NoSink
    /\ FinishTask(i, over)
    /\ UNCHANGED lastFileMeta

\* The next pass of the loop begins: a canvas is made and handed to toBlob,
\* or getContext('2d') gives null and compressToFit throws.
BeginPass(i, t, ctxOk) ==
    IF ctxOk
    THEN /\ tasks' = [tasks EXCEPT ![i] = [t EXCEPT !.pc = "encoding"]]
         /\ NoSink
         /\ NoEnd
         /\ UNCHANGED << error, lastFileMeta >>
    ELSE CompressionFailed(i, t.pass)

\* const url = URL.createObjectURL(blob)
createObjectURL == objectUrls' = objectUrls + 1

\* Mutant: the URL revoked after a successful load only.
revokeObjectURLOnLoad(ok) ==
    objectUrls' = (IF ok THEN objectUrls - 1 ELSE objectUrls)

\* finally { URL.revokeObjectURL(url) }, the load having succeeded or not
revokeObjectURL(ok) == objectUrls' = objectUrls - 1

\* The FileReader of the raw file fires onload (ok) or onerror.
ReadDone(i, ok) ==
    /\ i \in DOMAIN tasks
    /\ tasks[i].pc = "reading"
    /\ LET f == tasks[i].file
           dataUrl == ReadAsDataURL(f.type, f.size, f.name)
       IN  IF ~ok
           THEN /\ error' = Some(MsgReadFailed)
                /\ NoSink
                /\ FinishTask(i, 0)
                /\ UNCHANGED << lastFileMeta, objectUrls >>
           ELSE IF NeedsCompression(dataUrl)
           THEN /\ Cardinality(Compressing) < MaxCompressing
                /\ tasks' = [tasks EXCEPT ![i].pc = "loading"]
                /\ createObjectURL
                /\ NoSink
                /\ NoEnd
                /\ UNCHANGED << error, lastFileMeta >>
           ELSE /\ onChange(dataUrl)
                /\ FinishTask(i, 0)
                /\ UNCHANGED << error, lastFileMeta, objectUrls >>
    /\ UNCHANGED << props, disabled, isDestroyed, isDragging >>
    /\ UNCHANGED << confirmVars, viewVars, authVars, apiVars, pageVars,
                 selectVars >>

\* The Image of loadImageFromBlob fires onload or onerror, and the finally
\* of loadImageFromBlob revokes the object URL; on load the first pass begins
\* with quality 0.85 and the initial scale.
ImageLoadDone(i, ok, ctxOk) ==
    /\ i \in DOMAIN tasks
    /\ tasks[i].pc = "loading"
    /\ revokeObjectURL(ok)
    /\ IF ~ok
       THEN CompressionFailed(i, 0)
       ELSE BeginPass(i, [tasks[i] EXCEPT !.pass = 0,
                                          !.quality = InitialQuality,
                                          !.shrinks = 0], ctxOk)
    /\ UNCHANGED << props, disabled, isDestroyed, isDragging >>
    /\ UNCHANGED << confirmVars, viewVars, authVars, apiVars, pageVars,
                 selectVars >>

\* canvas.toBlob calls back with null (blob = None) or a blob of some size.
EncodeDone(i, blob, ctxOk) ==
    /\ i \in DOMAIN tasks
    /\ tasks[i].pc = "encoding"
    /\ LET t == tasks[i]
           targetBytes == Get(maxEncodedBytes)
       IN  IF ~IsSome(blob)
           THEN CompressionFailed(i, t.pass)
           ELSE IF FitsBudget(Get(blob), targetBytes)
           THEN /\ tasks' = [tasks EXCEPT ![i] =
                                [t EXCEPT !.pc = "rereading", !.blob = Get(blob)]]
                /\ NoSink
                /\ NoEnd
                /\ UNCHANGED << error, lastFileMeta >>
           ELSE IF t.pass + 1 < MaxPasses
           THEN BeginPass(i, [t EXCEPT !.pass = t.pass + 1,
                                          !.quality = NextQuality(t.quality),
                                          !.shrinks = NextShrinks(t.quality, t.shrinks)],
                             ctxOk)
           ELSE CompressionFailed(i, t.pass + 1)
    /\ UNCHANGED << props, disabled, isDestroyed, isDragging >>
    /\ UNCHANGED objectUrls
    /\ UNCHANGED << confirmVars, viewVars, authVars, apiVars, pageVars,
                 selectVars >>

\* The FileReader of the encoded blob fires onload or onerror.
BlobReadDone(i, ok) ==
    /\ i \in DOMAIN tasks
    /\ tasks[i].pc = "rereading"
    /\ IF ok
       THEN /\ onChange(ReadAsDataURL("image/jpeg", tasks[i].blob, tasks[i].file.name))
            /\ FinishTask(i, tasks[i].pass)
            /\ UNCHANGED << error, lastFileMeta >>
       ELSE CompressionFailed(i, tasks[i].pass)
    /\ UNCHANGED << props, disabled, isDestroyed, isDragging >>
    /\ UNCHANGED objectUrls
    /\ UNCHANGED << confirmVars, viewVars, authVars, apiVars, pageVars,
                 selectVars >>

Next ==
    \/ ResetSignalChange
    \/ SetDisabled
    \/ onDragOver
    \/ onDragLeave
    \/ \E f \in Files : onDrop(f)
    \/ onDropNoFile
    \/ onBrowse
    \/ \E f \in Files : onFileInputChange(f)
    \/ destroy
    \/ reinitialize
    \/ clearImage
    \/ \E i \in 1..MaxTasks, ok \in BOOLEAN : ReadDone(i, ok)
    \/ \E i \in 1..MaxTasks, ok \in BOOLEAN, ctxOk \in BOOLEAN :
           ImageLoadDone(i, ok, ctxOk)
    \/ \E i \in 1..MaxTasks, ctxOk \in BOOLEAN :
           \E blob \in {None} \cup {Some(n) : n \in BlobSizes(1024)} :
               EncodeDone(i, blob, ctxOk)
    \/ \E i \in 1..MaxTasks, ok \in BOOLEAN : BlobReadDone(i, ok)

\* The upload widget alone: the confirm bus stays idle.
Spec == Init /\ [][Next]_vars


(***************************************************************************)
(* The confirm bus (src/src/utils/confirm.ts), in a browser (window is     *)
(* defined).  window.dispatchEvent runs every registered listener before   *)
(* it returns, so a dispatch is one step.                                  *)
(***************************************************************************)
\* The ids a result event may carry: those makeId gives within the bound,
\* and one that no confirmPopup call has.
ResultIds == 1..(MaxConfirms + 1)

\* makeId(): crypto.randomUUID(), an id no earlier call has
makeId == issued + 1

\* new CustomEvent(RESULT_EVENT, { detail: { id, ok } })
ResultDetail(id, ok) == Some([id |-> id, ok |-> ok])

\* The handler of call id goes past
\* if (!custom.detail || custom.detail.id !== id) return
Matches(id, detail) == IsSome(detail) /\ Get(detail).id = id

\* Mutant: the handler without removeEventListener.
DispatchResultKeepsListeners(detail) ==
    /\ listeners' = listeners
    /\ promise' = [id \in DOMAIN promise |->
                      IF id \in listeners /\ Matches(id, detail)
                                          /\ promise[id] = None
                      THEN Some(Get(detail).ok)
                      ELSE promise[id]]
    /\ resolves' = [id \in DOMAIN resolves |->
                       IF id \in listeners /\ Matches(id, detail)
                       THEN resolves[id] + 1
                       ELSE resolves[id]]
    /\ lastEvent' = Some(detail)

\* window.dispatchEvent of a RESULT_EVENT with this detail: each registered
\* handler whose id it carries removes itself and calls resolve(ok), which
\* settles a promise that is still pending.
DispatchResult(detail) ==
    /\ listeners' = {id \in listeners : ~Matches(id, detail)}
    /\ promise' = [id \in DOMAIN promise |->
                      IF id \in listeners /\ Matches(id, detail)
                                          /\ promise[id] = None
                      THEN Some(Get(detail).ok)
                      ELSE promise[id]]
    /\ resolves' = [id \in DOMAIN resolves |->
                       IF id \in listeners /\ Matches(id, detail)
                       THEN resolves[id] + 1
                       ELSE resolves[id]]
    /\ lastEvent' = Some(detail)

\* confirmPopup(options): registers its handler, then dispatches the request.
\* confirmPopup(options): registers its handler, then dispatches the request
\* with window.dispatchEvent: the listener of a subscribed ConfirmViewport
\* runs setQueue((prev) => [...prev, req]); with no listener on the event
\* nothing takes it.
confirmPopup ==
    /\ issued < MaxConfirms
    /\ issued' = makeId
    /\ listeners' = listeners \cup {makeId}
    /\ requests' = Append(requests, makeId)
    /\ queue' = (IF subscribed THEN Append(queue, makeId) ELSE queue)
    /\ received' = (IF subscribed THEN Append(received, makeId) ELSE received)
    /\ UNCHANGED << subscribed, answered >>
    /\ lastEvent' = None
    /\ UNCHANGED << promise, resolves >>
    /\ UNCHANGED << uploadVars, authVars, apiVars, pageVars, selectVars >>

\* emitConfirmResult(id, ok), called by anything but the viewport
emitConfirmResult(id, ok) ==
    /\ DispatchResult(ResultDetail(id, ok))
    /\ UNCHANGED << issued, requests >>
    /\ UNCHANGED viewVars
    /\ UNCHANGED << uploadVars, authVars, apiVars, pageVars, selectVars >>

\* Another script dispatches 'app-confirm-result' with no detail.
ResultEventWithoutDetail ==
    /\ DispatchResult(None)
    /\ UNCHANGED << issued, requests >>
    /\ UNCHANGED viewVars
    /\ UNCHANGED << uploadVars, authVars, apiVars, pageVars, selectVars >>

ConfirmNext ==
    \/ confirmPopup
    \/ \E id \in ResultIds, ok \in BOOLEAN : emitConfirmResult(id, ok)
    \/ ResultEventWithoutDetail

\* The confirm bus alone: the upload widget stays as mounted and no
\* ConfirmViewport subscribes.
ConfirmSpec == Init /\ [][ConfirmNext]_vars

\* The mount effect of ConfirmViewport:
\* useEffect(() => onConfirmRequest((req) => setQueue(...)), [])
MountViewport ==
    /\ ~subscribed
    /\ subscribed' = TRUE
    /\ UNCHANGED << queue, received, answered >>
    /\ UNCHANGED confirmVars
    /\ UNCHANGED << uploadVars, authVars, apiVars, pageVars, selectVars >>

\* const active = queue[0]
active == IF queue = << >> THEN None ELSE Some(Head(queue))

\* Mutant: the whole queue dropped on an answer.
closeWithDropsQueue(ok) ==
    /\ IsSome(active)
    /\ DispatchResult(ResultDetail(Get(active), ok))
    /\ answered' = Append(answered, Get(active))
    /\ queue' = << >>
    /\ UNCHANGED << issued, requests, subscribed, received >>
    /\ UNCHANGED << uploadVars, authVars, apiVars, pageVars, selectVars >>

\* closeWith(ok), from the Confirm button (true), the Cancel button or the
\* Modal's onClose (false): if (!active) return;
\* emitConfirmResult(active.id, ok); setQueue((prev) => prev.slice(1))
closeWith(ok) ==
    /\ IsSome(active)
    /\ DispatchResult(ResultDetail(Get(active), ok))
    /\ answered' = Append(answered, Get(active))
    /\ queue' = Tail(queue)
    /\ UNCHANGED << issued, requests, subscribed, received >>
    /\ UNCHANGED << uploadVars, authVars, apiVars, pageVars, selectVars >>

ViewportNext ==
    \/ MountViewport
    \/ confirmPopup
    \/ \E ok \in BOOLEAN : closeWith(ok)
    \/ \E id \in ResultIds, ok \in BOOLEAN : emitConfirmResult(id, ok)
    \/ ResultEventWithoutDetail

\* The confirm bus with its viewport, the upload widget staying as mounted,
\* under the scheduling the page gives: the mount effect runs, and the user
\* answers a dialog that stays open.
ViewportLiveSpec ==
    /\ Init
    /\ [][ViewportNext]_vars
    /\ WF_vars(MountViewport)
    /\ WF_vars(\E ok \in BOOLEAN : closeWith(ok))

(***************************************************************************)
(* AuthProvider.  Each await of an operation is a step; the call awaited   *)
(* takes effect when it completes.  Of the User record only the id is      *)
(* kept: name, email, role and createdAt are read by nothing here.         *)
(***************************************************************************)

\* The upload widget as mounted with its default props.
UploadIdle ==
    /\ maxSizeMB = DefaultMaxSizeMB
    /\ maxEncodedKB = None
    /\ disabled = FALSE
    /\ value = EmptyValue
    /\ isDestroyed = FALSE
    /\ error = None
    /\ lastFileMeta = None
    /\ isDragging = FALSE
    /\ tasks = << >>
    /\ objectUrls = 0
    /\ sunk = << >>
    /\ ended = None

Settled(op, outcome) == Some([op |-> op, outcome |-> outcome])

\* An operation called: it runs to its first await.
CallAuth(op, pc, email) ==
    /\ Len(authTasks) < MaxAuthTasks
    /\ authTasks' = Append(authTasks, AuthTask(op, pc, email))
    /\ settled' = None
    /\ UNCHANGED << user, isLoading, session, loggedOut >>
    /\ UNCHANGED << uploadVars, confirmVars, viewVars, apiVars, pageVars,
                 selectVars >>

\* login(email, password), to await signIn(...)
login(email) == CallAuth("login", "signIn", Some(email))

\* logout(), to await signOut()
logout == CallAuth("logout", "signOut", None)

\* signup(email, password, name), to await signUp(...)
signup(email) == CallAuth("signup", "signUp", Some(email))

\* confirmSignup(email, confirmationCode), to await confirmSignUp(...)
confirmSignup(email) == CallAuth("confirmSignup", "confirmSignUp", Some(email))

\* resendSignupCode(email), to await resendSignUpCode(...)
resendSignupCode(email) ==
    CallAuth("resendSignupCode", "resendSignUpCode", Some(email))

AtAwait(i, ops, pc) ==
    /\ i \in DOMAIN authTasks
    /\ authTasks[i].op \in ops
    /\ authTasks[i].pc = pc

\* The operation ends: its promise resolves or rejects.
EndAuth(i, outcome) ==
    /\ authTasks' = Remove(authTasks, i)
    /\ settled' = Settled(authTasks[i].op, outcome)

\* Mutant: the catch of login clearing the user.
SignInDoneClearsUser(i, outcome) ==
    /\ AtAwait(i, {"login"}, "signIn")
    /\ IF outcome = "signedIn"
       THEN /\ session' = authTasks[i].email
            /\ authTasks' = [authTasks EXCEPT ![i].pc = "getCurrentUser"]
            /\ settled' = None
            /\ user' = user
       ELSE /\ EndAuth(i, IF outcome = "rejected" THEN "rejected"
                                                  ELSE "resolved")
            /\ user' = None
            /\ UNCHANGED session
    /\ UNCHANGED << isLoading, loggedOut >>
    /\ UNCHANGED << uploadVars, confirmVars, viewVars, apiVars, pageVars,
                 selectVars >>

\* login: await signIn(...) completes.  It rejects (catch: rethrown), or
\* resolves with isSignedIn false (nothing more is done), or resolves with
\* isSignedIn true, the account signed in.
SignInDone(i, outcome) ==
    /\ AtAwait(i, {"login"}, "signIn")
    /\ IF outcome = "signedIn"
       THEN /\ session' = authTasks[i].email
            /\ authTasks' = [authTasks EXCEPT ![i].pc = "getCurrentUser"]
            /\ settled' = None
       ELSE /\ EndAuth(i, IF outcome = "rejected" THEN "rejected"
                                                  ELSE "resolved")
            /\ UNCHANGED session
    /\ UNCHANGED << user, isLoading, loggedOut >>
    /\ UNCHANGED << uploadVars, confirmVars, viewVars, apiVars, pageVars,
                 selectVars >>

\* login and checkAuth: await getCurrentUser() completes.  It resolves only
\* with a session, to that session's user.  When it rejects, login rethrows
\* and checkAuth runs setUser(null) and, in finally, setIsLoading(false).
GetCurrentUserDone(i, ok) ==
    /\ AtAwait(i, {"login", "checkAuth"}, "getCurrentUser")
    /\ ok => IsSome(session)
    /\ IF ok
       THEN /\ authTasks' = [authTasks EXCEPT ![i].who = session,
                                              ![i].pc = "getUserProfile"]
            /\ settled' = None
            /\ UNCHANGED << user, isLoading >>
       ELSE IF authTasks[i].op = "login"
       THEN /\ EndAuth(i, "rejected")
            /\ UNCHANGED << user, isLoading >>
       ELSE /\ EndAuth(i, "resolved")
            /\ user' = None
            /\ isLoading' = FALSE
    /\ UNCHANGED << session, loggedOut >>
    /\ UNCHANGED << uploadVars, confirmVars, viewVars, apiVars, pageVars,
                 selectVars >>

\* await getUserProfile(...) completes: it catches a fetchUserAttributes
\* failure and resolves either way.
GetUserProfileDone(i) ==
    /\ AtAwait(i, {"login", "checkAuth"}, "getUserProfile")
    /\ authTasks' = [authTasks EXCEPT ![i].pc = "getRole"]
    /\ settled' = None
    /\ UNCHANGED << user, isLoading, session, loggedOut >>
    /\ UNCHANGED << uploadVars, confirmVars, viewVars, apiVars, pageVars,
                 selectVars >>

\* await getRole(...) completes (it catches a fetchAuthSession failure):
\* setUser({ id: cognitoUser.userId, ... }); checkAuth then runs
\* setIsLoading(false).
GetRoleDone(i) ==
    /\ AtAwait(i, {"login", "checkAuth"}, "getRole")
    /\ user' = authTasks[i].who
    /\ isLoading' = (IF authTasks[i].op = "checkAuth" THEN FALSE ELSE isLoading)
    /\ EndAuth(i, "resolved")
    /\ loggedOut' = (IF authTasks[i].op = "login" /\ ~authTasks[i].early
                     THEN FALSE ELSE loggedOut)
    /\ UNCHANGED session
    /\ UNCHANGED << uploadVars, confirmVars, viewVars, apiVars, pageVars,
                 selectVars >>

\* logout: await signOut() completes.  Resolved: the session is gone,
\* setUser(null).  Rejected: the catch logs and logout resolves.
SignOutDone(i, ok) ==
    /\ AtAwait(i, {"logout"}, "signOut")
    /\ settled' = Settled("logout", "resolved")
    /\ IF ok
       THEN /\ session' = None
            /\ user' = None
            /\ loggedOut' = TRUE
            /\ authTasks' = [j \in 1..(Len(authTasks) - 1) |->
                                [Remove(authTasks, i)[j] EXCEPT !.early = TRUE]]
       ELSE /\ authTasks' = Remove(authTasks, i)
            /\ UNCHANGED << session, user, loggedOut >>
    /\ UNCHANGED isLoading
    /\ UNCHANGED << uploadVars, confirmVars, viewVars, apiVars, pageVars,
                 selectVars >>

\* signup, confirmSignup, resendSignupCode: the Amplify call completes; a
\* failure is logged and rethrown.
SignUpStepDone(i, ok) ==
    /\ \/ AtAwait(i, {"signup"}, "signUp")
       \/ AtAwait(i, {"confirmSignup"}, "confirmSignUp")
       \/ AtAwait(i, {"resendSignupCode"}, "resendSignUpCode")
    /\ EndAuth(i, IF ok THEN "resolved" ELSE "rejected")
    /\ UNCHANGED << user, isLoading, session, loggedOut >>
    /\ UNCHANGED << uploadVars, confirmVars, viewVars, apiVars, pageVars,
                 selectVars >>

AuthNext ==
    \/ \E e \in Accounts : login(e)
    \/ logout
    \/ \E e \in Accounts : signup(e)
    \/ \E e \in Accounts : confirmSignup(e)
    \/ \E e \in Accounts : resendSignupCode(e)
    \/ \E i \in 1..MaxAuthTasks,
          o \in {"rejected", "notSignedIn", "signedIn"} : SignInDone(i, o)
    \/ \E i \in 1..MaxAuthTasks, ok \in BOOLEAN : GetCurrentUserDone(i, ok)
    \/ \E i \in 1..MaxAuthTasks : GetUserProfileDone(i)
    \/ \E i \in 1..MaxAuthTasks : GetRoleDone(i)
    \/ \E i \in 1..MaxAuthTasks, ok \in BOOLEAN : SignOutDone(i, ok)
    \/ \E i \in 1..MaxAuthTasks, ok \in BOOLEAN : SignUpStepDone(i, ok)

\* The provider mounted in a browser that holds no session or the session of
\* an account.
AuthInit ==
    /\ UploadIdle
    /\ ConfirmIdle
    /\ \E s \in {None} \cup {Some(a) : a \in Accounts} : AuthIdle(s)
    /\ ApiIdle
    /\ PageIdle({})
    /\ SelectIdle(<< >>, None)

AuthSpec == AuthInit /\ [][AuthNext]_vars

(***************************************************************************)
(* getAllReadingLists and the getReadingLists it falls back to.  A JSON    *)
(* value is [t, s, els, body]: its type, its string (of a list object: its *)
(* id), its elements (of a list object: its bookIds member, if any) and,   *)
(* of an object, its body member, if any.                                  *)
(***************************************************************************)

JValue(t, str, els, body) == [t |-> t, s |-> str, els |-> els, body |-> body]
JString(x) == JValue("string", x, << >>, None)
JArray(els) == JValue("array", "", els, None)

\* The items of a body: a list whose bookIds hold a number among the
\* strings, null, and a list whose bookIds is not an array.
SampleItems ==
    << JValue("object", "l1",
              Some(JArray(<< JString("b1"),
                             JValue("number", "7", << >>, None),
                             JString("b2") >>)),
              None),
       JValue("null", "", << >>, None),
       JValue("object", "l2", Some(JString("b1")), None) >>

\* JSON.parse of the texts a body member is given here; None: it throws.
JSONParse(text) ==
    CASE text = "[l1,null,l2]" -> Some(JArray(SampleItems))
      [] text = "{}" -> Some(JValue("object", "", None, None))
      [] OTHER -> None

\* The bodies response.json() may resolve with.
DataChoices ==
    { JArray(SampleItems),
      JArray(<< >>),
      JValue("object", "", None, Some(JString("[l1,null,l2]"))),
      JValue("object", "", None, Some(JString("{}"))),
      JValue("object", "", None, Some(JString("oops"))),
      JValue("object", "", None, Some(JValue("number", "7", << >>, None))),
      JString("down for maintenance") }

\* What await fetch(...) gives: it rejects (sent FALSE), or resolves with a
\* response that is ok or not, whose json() resolves with a body (None:
\* json() rejects).
Responses ==
    {[sent |-> FALSE, ok |-> FALSE, json |-> None],
     [sent |-> TRUE, ok |-> FALSE, json |-> None]}
        \cup {[sent |-> TRUE, ok |-> TRUE, json |-> j] :
                 j \in {None} \cup {Some(d) : d \in DataChoices}}

\* typeof value === 'object' && value !== null
isObject(v) == v.t \in {"object", "array"}

\* itemsRaw: data itself when an array, JSON.parse(data.body) when data is
\* an object with a string body (None: the parse throws), else [].
ItemsRaw(data) ==
    IF data.t = "array" THEN Some(data)
    ELSE IF isObject(data) /\ IsSome(data.body) /\ Get(data.body).t = "string"
    THEN JSONParse(Get(data.body).s)
    ELSE Some(JArray(<< >>))

\* { ...item, bookIds }: the string members of an array bookIds, else [].
ToReadingList(item) ==
    [id |-> item.s,
     bookIds |-> IF IsSome(item.els) /\ Get(item.els).t = "array"
                 THEN LET ids == SelectSeq(Get(item.els).els,
                                           LAMBDA v : v.t = "string")
                      IN  [k \in 1..Len(ids) |-> ids[k].s]
                 ELSE << >>]

\* itemsRaw.map(...).filter((item) => item !== null)
ToReadingLists(els) ==
    LET objs == SelectSeq(els, isObject)
    IN  [k \in 1..Len(objs) |-> ToReadingList(objs[k])]

\* getAllReadingLists(), to await getAuthHeaders()
getAllReadingLists ==
    /\ Len(apiCalls) < MaxApiCalls
    /\ apiCalls' = Append(apiCalls, [pc |-> "getAuthHeaders",
                                     fallback |-> FALSE, json |-> None])
    /\ returned' = None
    /\ UNCHANGED << uploadVars, confirmVars, viewVars, authVars, pageVars,
                 selectVars >>

\* The promise of call i settles.
Return(i, outcome, result) ==
    /\ apiCalls' = Remove(apiCalls, i)
    /\ returned' = Some([outcome |-> outcome, lists |-> result])

\* Something throws at an await of call i.  In getAllReadingLists itself the
\* catch returns [].  In the fallback the catch of getReadingLists rethrows,
\* and getAllReadingLists, which returned that promise without awaiting it,
\* is past its own try: its promise rejects.
Throw(i) ==
    IF apiCalls[i].fallback
    THEN Return(i, "rejected", << >>)
    ELSE Return(i, "resolved", << >>)

\* await getAuthHeaders() completes: it catches a fetchAuthSession failure.
GetAuthHeadersDone(i) ==
    /\ i \in DOMAIN apiCalls
    /\ apiCalls[i].pc = "getAuthHeaders"
    /\ apiCalls' = [apiCalls EXCEPT ![i].pc = "fetch"]
    /\ returned' = None
    /\ UNCHANGED << uploadVars, confirmVars, viewVars, authVars, pageVars,
                 selectVars >>

\* await fetch(...) completes.  Rejected: the catch.  Not ok:
\* getAllReadingLists returns getReadingLists(), which runs to its await
\* getAuthHeaders(); getReadingLists goes to await
\* response.text().catch(...).  Ok: to await response.json().
FetchDone(i, r) ==
    /\ i \in DOMAIN apiCalls
    /\ apiCalls[i].pc = "fetch"
    /\ IF ~r.sent
       THEN Throw(i)
       ELSE /\ apiCalls' =
                 [apiCalls EXCEPT ![i] =
                     IF r.ok THEN [@ EXCEPT !.pc = "json", !.json = r.json]
                     ELSE IF @.fallback THEN [@ EXCEPT !.pc = "text"]
                     ELSE [@ EXCEPT !.pc = "getAuthHeaders",
                                    !.fallback = TRUE]]
            /\ returned' = None
    /\ UNCHANGED << uploadVars, confirmVars, viewVars, authVars, pageVars,
                 selectVars >>

\* getReadingLists: await response.text().catch(...) completes; throw new
\* Error('Failed to fetch reading lists: ...')
TextDone(i) ==
    /\ i \in DOMAIN apiCalls
    /\ apiCalls[i].pc = "text"
    /\ Throw(i)
    /\ UNCHANGED << uploadVars, confirmVars, viewVars, authVars, pageVars,
                 selectVars >>

\* await response.json() completes, and the rest of the function runs.
JsonDone(i) ==
    /\ i \in DOMAIN apiCalls
    /\ apiCalls[i].pc = "json"
    /\ LET json == apiCalls[i].json
       IN  IF json = None THEN Throw(i)
           ELSE LET itemsRaw == ItemsRaw(Get(json))
                IN  IF itemsRaw = None THEN Throw(i)
                    ELSE IF Get(itemsRaw).t # "array"
                    THEN Return(i, "resolved", << >>)
                    ELSE Return(i, "resolved",
                                ToReadingLists(Get(itemsRaw).els))
    /\ UNCHANGED << uploadVars, confirmVars, viewVars, authVars, pageVars,
                 selectVars >>

ApiNext ==
    \/ getAllReadingLists
    \/ \E i \in 1..MaxApiCalls : GetAuthHeadersDone(i)
    \/ \E i \in 1..MaxApiCalls, r \in Responses : FetchDone(i, r)
    \/ \E i \in 1..MaxApiCalls : TextDone(i)
    \/ \E i \in 1..MaxApiCalls : JsonDone(i)

\* getAllReadingLists alone: everything else stays as mounted.
ApiSpec == Init /\ [][ApiNext]_vars

(***************************************************************************)
(* The ReadingLists page.  While isLoading the page renders a spinner and  *)
(* none of its buttons; an open Modal is taken to cover the page, so the   *)
(* buttons of the page are used with no modal open.  The description and   *)
(* book fields of the forms, and the books loaded for them, are read by    *)
(* nothing here.  The server gives a list it creates a new id, and answers *)
(* a request when the request completes.                                   *)
(***************************************************************************)

\* What the user may type as a list name.
NameChoices == {"", "  ", "Sci-fi"}

\* name.trim(), of these names
Trim(name) == IF name = "  " THEN "" ELSE name

\* The id of the list the server held before the page was opened.
FirstListId == 1

ListItem(id, edited) == [id |-> id, edited |-> edited]

ListIds(ls) == {ls[k].id : k \in DOMAIN ls}

\* The lists of these ids as the server returns them, by id.
Fetched(ids) ==
    [k \in 1..Cardinality(ids) |->
        ListItem(CHOOSE x \in ids : Cardinality({y \in ids : y < x}) = k - 1,
                 FALSE)]

PageTask(op, id, seen) == [op |-> op, id |-> id, seen |-> seen]

\* The page shows its buttons and no modal covers them.
PageOpen == ~listsLoading /\ ~isModalOpen /\ ~isEditModalOpen

\* loadLists: await getReadingLists() completes; setLists(data) or
\* handleApiError(error); finally setIsLoading(false).
LoadDone(i, ok) ==
    /\ i \in DOMAIN pageTasks
    /\ pageTasks[i].op = "load"
    /\ lists' = (IF ok THEN Fetched(stored) ELSE lists)
    /\ listsLoading' = FALSE
    /\ pageTasks' = Remove(pageTasks, i)
    /\ UNCHANGED << isModalOpen, newListName, isEditModalOpen, editListId,
                    editListName, stored, created, deleted >>
    /\ UNCHANGED << uploadVars, confirmVars, viewVars, authVars, apiVars,
                 selectVars >>

openCreateListModal ==
    /\ PageOpen
    /\ isModalOpen' = TRUE
    /\ UNCHANGED << lists, listsLoading, newListName, isEditModalOpen,
                    editListId, editListName, pageTasks, stored, created,
                    deleted >>
    /\ UNCHANGED << uploadVars, confirmVars, viewVars, authVars, apiVars,
                 selectVars >>

\* onChange of the name field of the create form
SetNewListName(name) ==
    /\ isModalOpen
    /\ newListName' = name
    /\ UNCHANGED << lists, listsLoading, isModalOpen, isEditModalOpen,
                    editListId, editListName, pageTasks, stored, created,
                    deleted >>
    /\ UNCHANGED << uploadVars, confirmVars, viewVars, authVars, apiVars,
                 selectVars >>

closeCreateListModal ==
    /\ isModalOpen
    /\ isModalOpen' = FALSE
    /\ newListName' = ""
    /\ UNCHANGED << lists, listsLoading, isEditModalOpen, editListId,
                    editListName, pageTasks, stored, created, deleted >>
    /\ UNCHANGED << uploadVars, confirmVars, viewVars, authVars, apiVars,
                 selectVars >>

\* The Create button: with a blank name, alert and return; else to
\* await createReadingList(...), the handler holding the lists it was
\* rendered with.
handleCreateList ==
    /\ isModalOpen
    /\ IF Trim(newListName) = ""
       THEN UNCHANGED pageTasks
       ELSE /\ Len(pageTasks) < MaxPageTasks
            /\ pageTasks' = Append(pageTasks, PageTask("create", 0, lists))
    /\ UNCHANGED << lists, listsLoading, isModalOpen, newListName,
                    isEditModalOpen, editListId, editListName, stored,
                    created, deleted >>
    /\ UNCHANGED << uploadVars, confirmVars, viewVars, authVars, apiVars,
                 selectVars >>

\* handleCreateList: await createReadingList(...) completes.  Resolved:
\* setLists([...lists, newList]) with the lists the handler was rendered
\* with, the modal closed and the form reset.  Rejected: handleApiError.
CreateDone(i, ok) ==
    /\ i \in DOMAIN pageTasks
    /\ pageTasks[i].op = "create"
    /\ pageTasks' = Remove(pageTasks, i)
    /\ IF ok
       THEN /\ created < MaxCreated
            /\ created' = created + 1
            /\ stored' = stored \cup {FirstListId + created'}
            /\ lists' = Append(pageTasks[i].seen,
                               ListItem(FirstListId + created', FALSE))
            /\ isModalOpen' = FALSE
            /\ newListName' = ""
       ELSE UNCHANGED << created, stored, lists, isModalOpen, newListName >>
    /\ UNCHANGED << listsLoading, isEditModalOpen, editListId, editListName,
                    deleted >>
    /\ UNCHANGED << uploadVars, confirmVars, viewVars, authVars, apiVars,
                 selectVars >>

\* The Edit button of a list shown.
openEditModal(id) ==
    /\ PageOpen
    /\ id \in ListIds(lists)
    /\ editListId' = Some(id)
    /\ editListName' = "Sci-fi"
    /\ isEditModalOpen' = TRUE
    /\ UNCHANGED << lists, listsLoading, isModalOpen, newListName, pageTasks,
                    stored, created, deleted >>
    /\ UNCHANGED << uploadVars, confirmVars, viewVars, authVars, apiVars,
                 selectVars >>

\* onChange of the name field of the edit form
SetEditListName(name) ==
    /\ isEditModalOpen
    /\ editListName' = name
    /\ UNCHANGED << lists, listsLoading, isModalOpen, newListName,
                    isEditModalOpen, editListId, pageTasks, stored, created,
                    deleted >>
    /\ UNCHANGED << uploadVars, confirmVars, viewVars, authVars, apiVars,
                 selectVars >>

\* The state closeEditModal() sets.
EditModalClosed ==
    /\ isEditModalOpen' = FALSE
    /\ editListId' = None
    /\ editListName' = ""

closeEditModal ==
    /\ isEditModalOpen
    /\ EditModalClosed
    /\ UNCHANGED << lists, listsLoading, isModalOpen, newListName, pageTasks,
                    stored, created, deleted >>
    /\ UNCHANGED << uploadVars, confirmVars, viewVars, authVars, apiVars,
                 selectVars >>

\* The Save button: without editListId, or with a blank name, return; else
\* to await updateReadingList(editListId, ...).
handleUpdateList ==
    /\ isEditModalOpen
    /\ IF editListId = None \/ Trim(editListName) = ""
       THEN UNCHANGED pageTasks
       ELSE /\ Len(pageTasks) < MaxPageTasks
            /\ pageTasks' = Append(pageTasks,
                                   PageTask("update", Get(editListId), << >>))
    /\ UNCHANGED << lists, listsLoading, isModalOpen, newListName,
                    isEditModalOpen, editListId, editListName, stored,
                    created, deleted >>
    /\ UNCHANGED << uploadVars, confirmVars, viewVars, authVars, apiVars,
                 selectVars >>

\* handleUpdateList: await updateReadingList(...) completes.  Resolved, for
\* a list the server holds: setLists((prev) => prev.map(...)) and
\* closeEditModal().  Rejected: handleApiError.
UpdateDone(i, ok) ==
    /\ i \in DOMAIN pageTasks
    /\ pageTasks[i].op = "update"
    /\ pageTasks' = Remove(pageTasks, i)
    /\ IF ok
       THEN /\ pageTasks[i].id \in stored
            /\ lists' = [k \in DOMAIN lists |->
                            IF lists[k].id = pageTasks[i].id
                            THEN ListItem(pageTasks[i].id, TRUE)
                            ELSE lists[k]]
            /\ EditModalClosed
       ELSE UNCHANGED << lists, isEditModalOpen, editListId, editListName >>
    /\ UNCHANGED << listsLoading, isModalOpen, newListName, stored, created,
                    deleted >>
    /\ UNCHANGED << uploadVars, confirmVars, viewVars, authVars, apiVars,
                 selectVars >>

\* The Delete button of a list shown, window.confirm answered OK: to
\* await deleteReadingList(listId).
handleDeleteList(id) ==
    /\ PageOpen
    /\ id \in ListIds(lists)
    /\ Len(pageTasks) < MaxPageTasks
    /\ pageTasks' = Append(pageTasks, PageTask("delete", id, << >>))
    /\ UNCHANGED << lists, listsLoading, isModalOpen, newListName,
                    isEditModalOpen, editListId, editListName, stored,
                    created, deleted >>
    /\ UNCHANGED << uploadVars, confirmVars, viewVars, authVars, apiVars,
                 selectVars >>

\* handleDeleteList: await deleteReadingList(listId) completes.  Resolved:
\* setLists((prev) => prev.filter((l) => l.id !== listId)).  Rejected:
\* handleApiError.
DeleteDone(i, ok) ==
    /\ i \in DOMAIN pageTasks
    /\ pageTasks[i].op = "delete"
    /\ pageTasks' = Remove(pageTasks, i)
    /\ IF ok
       THEN /\ stored' = stored \ {pageTasks[i].id}
            /\ lists' = SelectSeq(lists, LAMBDA l : l.id # pageTasks[i].id)
            /\ deleted' = deleted \cup {pageTasks[i].id}
       ELSE UNCHANGED << stored, lists, deleted >>
    /\ UNCHANGED << listsLoading, isModalOpen, newListName, isEditModalOpen,
                    editListId, editListName, created >>
    /\ UNCHANGED << uploadVars, confirmVars, viewVars, authVars, apiVars,
                 selectVars >>

PageNext ==
    \/ \E i \in 1..MaxPageTasks, ok \in BOOLEAN : LoadDone(i, ok)
    \/ openCreateListModal
    \/ \E name \in NameChoices : SetNewListName(name)
    \/ closeCreateListModal
    \/ handleCreateList
    \/ \E i \in 1..MaxPageTasks, ok \in BOOLEAN : CreateDone(i, ok)
    \/ \E id \in FirstListId..(FirstListId + MaxCreated) : openEditModal(id)
    \/ \E name \in NameChoices : SetEditListName(name)
    \/ closeEditModal
    \/ handleUpdateList
    \/ \E i \in 1..MaxPageTasks, ok \in BOOLEAN : UpdateDone(i, ok)
    \/ \E id \in FirstListId..(FirstListId + MaxCreated) : handleDeleteList(id)
    \/ \E i \in 1..MaxPageTasks, ok \in BOOLEAN : DeleteDone(i, ok)

\* The page opened by a user who has no list or one list.
PageInit ==
    /\ UploadIdle
    /\ ConfirmIdle
    /\ AuthIdle(None)
    /\ ApiIdle
    /\ \E s \in {{}, {FirstListId}} : PageIdle(s)
    /\ SelectIdle(<< >>, None)

PageSpec == PageInit /\ [][PageNext]_vars

(***************************************************************************)
(* SearchableMultiSelect.  A string is the sequence of its characters.     *)
(* The values derived in a render (useMemo) are operators on the state.    *)
(* selectedValues and onChange belong to the parent and have no part in    *)
(* the filtering and paging modelled here.  A page size is a whole number. *)
(***************************************************************************)

\* String.prototype.toLowerCase
ToLowerCase(str) ==
    [k \in DOMAIN str |-> CASE str[k] = "A" -> "a"
                            [] str[k] = "B" -> "b"
                            [] OTHER -> str[k]]

\* String.prototype.trim
RECURSIVE TrimString(_)
TrimString(str) ==
    IF str # << >> /\ Head(str) = " " THEN TrimString(Tail(str))
    ELSE IF str # << >> /\ str[Len(str)] = " "
    THEN TrimString(SubSeq(str, 1, Len(str) - 1))
    ELSE str

\* String.prototype.includes
Includes(hay, q) ==
    \E k \in 0..(Len(hay) - Len(q)) : SubSeq(hay, k + 1, k + Len(q)) = q

\* Array.prototype.slice(start, end), of indexes that are not negative
Slice(seq, start, end) ==
    LET from == IF start > Len(seq) THEN Len(seq) ELSE start
        to == IF end > Len(seq) THEN Len(seq) ELSE end
    IN  IF from >= to THEN << >> ELSE SubSeq(seq, from + 1, to)

\* The k-th option of the lists given to the component.
OptionAt(k) ==
    [value |-> k,
     label |-> CASE k % 3 = 1 -> << "A", "B" >>
                 [] k % 3 = 2 -> << "B", "a" >>
                 [] OTHER -> << "a" >>,
     description |-> IF k % 2 = 0 THEN Some(<< "A" >>) ELSE None]

OptionLists == {[k \in 1..n |-> OptionAt(k)] : n \in 0..MaxOptions}

\* What the user may have in the search box.
QueryChoices ==
    LET Chars == {"a", "B", " "}
    IN  {<< >>} \cup {<< c >> : c \in Chars}
                \cup {<< c, d >> : c \in Chars, d \in Chars}

PageSizeChoices == {None, Some(0), Some(1), Some(2), Some(3)}

\* hay is `${o.label} ${o.description ?? ''}`.toLowerCase()
filteredOptions ==
    LET q == ToLowerCase(TrimString(query))
        hay(o) ==
            ToLowerCase(o.label \o << " " >>
                            \o (IF IsSome(o.description)
                                THEN Get(o.description) ELSE << >>))
    IN  IF q = << >> THEN options
        ELSE SelectSeq(options, LAMBDA o : Includes(hay(o), q))

\* typeof pageSize === 'number' && pageSize > 0
isPaginationEnabled == IsSome(pageSize) /\ Get(pageSize) > 0

\* Math.max(1, Math.ceil(filteredOptions.length / pageSize))
totalPages ==
    IF ~isPaginationEnabled THEN 1
    ELSE Max2(1, CeilDiv(Len(filteredOptions), Get(pageSize)))

\* Math.min(Math.max(1, page), totalPages)
ClampPage(page) ==
    LET low == Max2(1, page)
    IN  IF low <= totalPages THEN low ELSE totalPages

\* Mutant: the current page used as it is.
effectivePageUnclamped == currentPage

effectivePage == IF ~isPaginationEnabled THEN 1 ELSE ClampPage(currentPage)

startIndex ==
    IF ~isPaginationEnabled THEN 0 ELSE (effectivePage - 1) * Get(pageSize)

\* Math.min(startIndex + pageSize, filteredOptions.length)
endIndex ==
    IF ~isPaginationEnabled THEN Len(filteredOptions)
    ELSE IF startIndex + Get(pageSize) <= Len(filteredOptions)
    THEN startIndex + Get(pageSize)
    ELSE Len(filteredOptions)

paginatedOptions ==
    IF ~isPaginationEnabled THEN filteredOptions
    ELSE Slice(filteredOptions, startIndex, endIndex)

closeMenu ==
    /\ isOpen' = FALSE
    /\ query' = << >>
    /\ currentPage' = 1
    /\ UNCHANGED << options, pageSize, selectDisabled >>
    /\ UNCHANGED << uploadVars, confirmVars, viewVars, authVars, apiVars,
                 pageVars >>

\* openMenu(), from the button of a closed menu: if (disabled) return
openMenu ==
    /\ ~isOpen
    /\ IF selectDisabled
       THEN UNCHANGED << isOpen, query, currentPage >>
       ELSE /\ isOpen' = TRUE
            /\ query' = << >>
            /\ currentPage' = 1
    /\ UNCHANGED << options, pageSize, selectDisabled >>
    /\ UNCHANGED << uploadVars, confirmVars, viewVars, authVars, apiVars,
                 pageVars >>

\* onChange of the search box: setQuery(e.target.value);
\* if (isPaginationEnabled) setCurrentPage(1)
SetQuery(q) ==
    /\ isOpen
    /\ query' = q
    /\ currentPage' = (IF isPaginationEnabled THEN 1 ELSE currentPage)
    /\ UNCHANGED << options, pageSize, selectDisabled, isOpen >>
    /\ UNCHANGED << uploadVars, confirmVars, viewVars, authVars, apiVars,
                 pageVars >>

\* setPageSafe(page), from the page buttons of the pager and from its
\* Previous and Next buttons, disabled on the first and the last page; the
\* pager is rendered in an open menu when
\* isPaginationEnabled && filteredOptions.length > pageSize
setPageSafe(page) ==
    /\ isOpen
    /\ isPaginationEnabled
    /\ Len(filteredOptions) > Get(pageSize)
    /\ page \in 1..totalPages
    /\ currentPage' = ClampPage(page)
    /\ UNCHANGED << options, pageSize, selectDisabled, isOpen, query >>
    /\ UNCHANGED << uploadVars, confirmVars, viewVars, authVars, apiVars,
                 pageVars >>

\* The parent renders the component with another options list.
SetOptions(opts) ==
    /\ options' = opts
    /\ UNCHANGED << pageSize, selectDisabled, isOpen, query, currentPage >>
    /\ UNCHANGED << uploadVars, confirmVars, viewVars, authVars, apiVars,
                 pageVars >>

\* The parent renders the component with another disabled.
SetSelectDisabled(b) ==
    /\ selectDisabled' = b
    /\ UNCHANGED << options, pageSize, isOpen, query, currentPage >>
    /\ UNCHANGED << uploadVars, confirmVars, viewVars, authVars, apiVars,
                 pageVars >>

SelectNext ==
    \/ closeMenu
    \/ openMenu
    \/ \E q \in QueryChoices : SetQuery(q)
    \/ \E page \in 1..(MaxOptions + 1) : setPageSafe(page)
    \/ \E opts \in OptionLists : SetOptions(opts)
    \/ \E b \in BOOLEAN : SetSelectDisabled(b)

SelectInit ==
    /\ UploadIdle
    /\ ConfirmIdle
    /\ AuthIdle(None)
    /\ ApiIdle
    /\ PageIdle({})
    /\ \E opts \in OptionLists, size \in PageSizeChoices : SelectIdle(opts, size)

SelectSpec == SelectInit /\ [][SelectNext]_vars


(***************************************************************************)
(* Claims.                                                                 *)
(***************************************************************************)
\* The file of the model that carries a name.
FileNamed(n) == CHOOSE f \in Files : f.name = n

\* The step is a selection of f through the drop zone or the file input.
SelectStep(f) == onDrop(f) \/ onFileInputChange(f)

\* C1: while maxEncodedKB is configured, every data URL handed to the sink
\* (the raw file's encoding or the output of the fit-to-budget search) has a
\* byte length of at most maxEncodedKB * 1024.
C1_SinkWithinEncodedBudget ==
    \A k \in DOMAIN sunk :
        (IsSome(maxEncodedKB) /\ sunk[k].kind = "data")
            => dataUrlByteLength(sunk[k]) <= Get(maxEncodedKB) * 1024

\* C2: while the session stays destroyed no ingestion takes a step (no read
\* or encode callback is served, none is started) and the sink receives no
\* non-empty value, also for an ingestion begun before destroy().
C2_NoIngestionWhileDestroyed ==
    [][(isDestroyed /\ isDestroyed')
          => /\ tasks' = tasks
             /\ \A k \in DOMAIN sunk' : sunk'[k] = EmptyValue]_vars

\* C3: an ingestion hands its result to the sink only if it is still the
\* most recently started one: the ingestion a step ends with a sink call is
\* the newest in flight, no later selection being under way.
C3_OnlyLatestIngestionApplies ==
    [][(Len(tasks') < Len(tasks) /\ sunk' # << >>)
          => tasks' = Remove(tasks, Len(tasks))]_vars

\* C4: at most one ingestion (file read plus optional compression) is in
\* flight at any time.
C4_AtMostOneIngestionInFlight == Len(tasks) <= 1

\* C5 as stated: selecting a file whose type does not start with "image/",
\* whatever its size, calls no sink and sets the NotAnImage message.
C5_NonImageAlwaysNotAnImage ==
    [][\A f \in Files :
          (~disabled /\ ~isDestroyed /\ ~StartsWith(f.type, "image/")
             /\ SelectStep(f))
          => (sunk' = << >> /\ error' = Some(MsgNotAnImage))]_vars

\* C5 as amended: selecting a file whose type does not start with "image/"
\* calls no sink and starts no ingestion; it sets the NotAnImage message
\* when the file's size is within maxRawBytes, and the size-limit message
\* when it is above (the size is checked first).
C5_NonImageRejected ==
    [][\A f \in Files :
          (~disabled /\ ~isDestroyed /\ ~StartsWith(f.type, "image/")
             /\ SelectStep(f))
          => /\ sunk' = << >>
             /\ tasks' = tasks
             /\ error' = Some(IF f.size > maxSizeMB * 1024 * 1024
                              THEN MsgFileTooLarge(maxSizeMB * 1024 * 1024)
                              ELSE MsgNotAnImage)]_vars

\* C5 witness: a non-image file was selected and rejected as such.
C5_Witness == error = Some(MsgNotAnImage) /\ sunk = << >>

\* C6: a selected file is rejected for size exactly when its size exceeds
\* maxSizeMB * 1024 * 1024 (a file of exactly that size is not); a rejected
\* oversize file calls no sink, starts no ingestion and gets the message
\* that carries the formatted limit; every data URL handed to the sink comes
\* from a file within the limit.
C6_RawSizeLimit ==
    [][/\ \A f \in Files :
             (~disabled /\ ~isDestroyed /\ SelectStep(f))
             => IF f.size > maxSizeMB * 1024 * 1024
                THEN /\ error' = Some([kind |-> "FileTooLarge",
                                       limit |-> Some(FormatBytes(maxSizeMB * 1024 * 1024))])
                     /\ sunk' = << >>
                     /\ tasks' = tasks
                ELSE error' = None \/ Get(error').kind # "FileTooLarge"
       /\ \A k \in DOMAIN sunk' :
             sunk'[k].kind = "data"
                => FileNamed(sunk'[k].of).size <= maxSizeMB * 1024 * 1024]_vars

\* C6 witness: the encoding of a file of exactly maxRawBytes was emitted.
C6_Witness ==
    \E k \in DOMAIN sunk :
        /\ sunk[k].kind = "data"
        /\ FileNamed(sunk[k].of).size = maxSizeMB * 1024 * 1024

\* C7: an ingestion that ends after 10 over-budget passes made no sink call
\* and left the message that carries the formatted encoded-size budget.
C7_BudgetUnreachable ==
    (IsSome(ended) /\ Get(ended).over = 10)
        => /\ sunk = << >>
           /\ error = Some([kind |-> "TooLargeToStore",
                            limit |-> Some(FormatBytes(Get(maxEncodedKB) * 1024))])

\* C7 witness: an ingestion has just ended after 10 over-budget passes.
C7_Witness == IsSome(ended) /\ Get(ended).over = 10

\* C8: with no maxEncodedKB, the successful read of a selected file calls the
\* sink exactly once, with a non-empty data URL whose MIME type is an image
\* type, and ends the ingestion; no ingestion ever enters the compression
\* search.
C8_NoBudgetEmitsOnce ==
    [][maxEncodedKB = None
          => /\ \A i \in 1..MaxTasks :
                   ReadDone(i, TRUE)
                   => /\ Len(sunk') = 1
                      /\ sunk'[1].kind = "data"
                      /\ sunk'[1].len > 0
                      /\ StartsWith(sunk'[1].mime, "image/")
                      /\ Len(tasks') = Len(tasks) - 1
                      /\ ended' = Some([file |-> tasks[i].file.name, over |-> 0])
             /\ \A j \in DOMAIN tasks' : tasks'[j].pc = "reading"]_vars

\* C8 witness: without a budget a data URL was handed to the sink.
C8_Witness ==
    maxEncodedKB = None /\ Len(sunk) = 1 /\ sunk[1].kind = "data" /\ IsSome(ended)

\* C9: on a destroyed session a selection attempt (drop, browse, file input)
\* calls no sink, starts no ingestion and changes neither error nor
\* lastFileMeta; reinitialize() leaves a session that is not destroyed and
\* has no error and no metadata, on which (when not disabled) the selection
\* of an accepted file starts its ingestion as on a fresh session.
C9_DestroyedIgnoresSelection ==
    [][/\ isDestroyed
             => \A f \in Files :
                   (SelectStep(f) \/ onDropNoFile \/ onBrowse)
                   => /\ sunk' = << >>
                      /\ tasks' = tasks
                      /\ error' = error
                      /\ lastFileMeta' = lastFileMeta
       /\ reinitialize
             => (~isDestroyed' /\ error' = None /\ lastFileMeta' = None)
       /\ \A f \in Files :
             (~isDestroyed /\ ~disabled
                /\ f.size <= maxSizeMB * 1024 * 1024
                /\ StartsWith(f.type, "image/")
                /\ SelectStep(f))
             => /\ Len(tasks') = Len(tasks) + 1
                /\ tasks'[Len(tasks')].file = f
                /\ tasks'[Len(tasks')].pc = "reading"
                /\ error' = None
                /\ lastFileMeta' = Some([name |-> f.name, size |-> f.size])]_vars

\* C9 witness: a destroyed session at rest after an event that reached it
\* (destroy() itself leaves sunk non-empty).
C9_Witness ==
    isDestroyed /\ sunk = << >> /\ error = None /\ lastFileMeta = None

\* C10: clearImage calls the sink exactly once, with the empty string, and
\* leaves error and lastFileMeta unset.
C10_ClearResets ==
    [][clearImage
          => /\ sunk' = << EmptyValue >>
             /\ value' = EmptyValue
             /\ error' = None
             /\ lastFileMeta' = None]_vars

\* C10 witness: clearImage has just run (destroy, the other caller of
\* onChange(''), leaves isDestroyed set).
C10_Witness == sunk = << EmptyValue >> /\ ~isDestroyed

\* C11: every change of resetSignal leaves error and lastFileMeta unset,
\* isDragging and isDestroyed false, calls no sink and leaves the parent's
\* image value as it was.
C11_ResetClearsTransientState ==
    [][ResetSignalChange
          => /\ error' = None
             /\ lastFileMeta' = None
             /\ isDragging' = FALSE
             /\ isDestroyed' = FALSE
             /\ sunk' = << >>
             /\ value' = value]_vars

\* C11 witness: an emitted image is still the parent's value while the
\* metadata recorded for it has been cleared (clearImage and destroy empty
\* the value as well).
C11_Witness ==
    /\ value.kind = "data"
    /\ lastFileMeta = None
    /\ error = None
    /\ ~isDestroyed
    /\ ~isDragging
    /\ sunk = << >>
    /\ tasks = << >>

\* The toBlob results above the budget of 1 KB.
OverBudgetBlobs == {Some(n) : n \in {m \in BlobSizes(1024) : m > 1024}}

\* The steps in which ingestion i ends in failure: the read fails, the
\* raster does not load, no 2d context, toBlob gives null, the last pass is
\* over budget, or the read-back of the encoded blob fails.
FailureStep(i) ==
    \/ ReadDone(i, FALSE)
    \/ \E c \in BOOLEAN : ImageLoadDone(i, FALSE, c)
    \/ ImageLoadDone(i, TRUE, FALSE)
    \/ \E c \in BOOLEAN : EncodeDone(i, None, c)
    \/ \E b \in OverBudgetBlobs :
          \/ EncodeDone(i, b, FALSE)
          \/ (tasks[i].pass = MaxPasses - 1 /\ EncodeDone(i, b, TRUE))
    \/ BlobReadDone(i, FALSE)

\* C12: a selection that fails, at validation (oversize, wrong type: a
\* selection that starts no ingestion), at the file read or in the
\* compression search (a step that ends the ingestion), sets an error
\* message, calls no sink and leaves the parent's image value as it was;
\* every step that starts or advances an ingestion without ending it calls
\* no sink and leaves the value as it was.
C12_FailureKeepsValue ==
    [][/\ (~disabled /\ ~isDestroyed /\ tasks' = tasks)
             => \A f \in Files :
                   ((f.size > maxSizeMB * 1024 * 1024
                       \/ ~StartsWith(f.type, "image/"))
                      /\ SelectStep(f))
                   => (IsSome(error') /\ sunk' = << >> /\ value' = value)
       /\ Len(tasks') < Len(tasks)
             => \A i \in DOMAIN tasks :
                   FailureStep(i)
                   => (IsSome(error') /\ sunk' = << >> /\ value' = value)
       /\ (tasks' # tasks /\ Len(tasks') >= Len(tasks))
             => (sunk' = << >> /\ value' = value)]_vars

\* C12 witness: an ingestion has just failed and the parent still holds the
\* image it had before.
C12_Witness ==
    IsSome(ended) /\ sunk = << >> /\ IsSome(error) /\ value = ExistingUrl

C14_ReinitializeKeepsValue ==
    [][reinitialize
          => /\ isDestroyed' = FALSE
             /\ error' = None
             /\ lastFileMeta' = None
             /\ isDragging' = FALSE
             /\ sunk' = << >>
             /\ value' = value]_vars

\* C14 witness: a session that is active again with the value still empty
\* and the transient state clear, an ingestion started before still resting.
C14_Witness ==
    /\ ~isDestroyed
    /\ ~disabled
    /\ value = EmptyValue
    /\ error = None
    /\ lastFileMeta = None
    /\ ~isDragging
    /\ sunk = << >>
    /\ tasks # << >>

\* C15 as stated: dropping a non-image file (here one within the raw size
\* limit) on an active session sets the NotAnImage message, calls no sink
\* and leaves lastFileMeta unset, whatever happened before.
C15_NonImageDropUnsetsMeta ==
    [][\A f \in Files :
          (~disabled /\ ~isDestroyed
             /\ ~StartsWith(f.type, "image/")
             /\ f.size <= maxSizeMB * 1024 * 1024
             /\ onDrop(f))
          => /\ error' = Some([kind |-> "NotAnImage", limit |-> None])
             /\ sunk' = << >>
             /\ lastFileMeta' = None]_vars

\* C15 as amended: dropping a non-image file within the raw size limit on an
\* active session sets the NotAnImage message, calls no sink, starts no
\* ingestion and leaves lastFileMeta as it was: unset if it was unset, the
\* metadata of the file selected before otherwise.
C15_NonImageDropKeepsMeta ==
    [][\A f \in Files :
          (~disabled /\ ~isDestroyed
             /\ ~StartsWith(f.type, "image/")
             /\ f.size <= maxSizeMB * 1024 * 1024
             /\ onDrop(f))
          => /\ error' = Some([kind |-> "NotAnImage", limit |-> None])
             /\ sunk' = << >>
             /\ tasks' = tasks
             /\ lastFileMeta' = lastFileMeta]_vars

\* C15 witness: the NotAnImage message beside the metadata of a file
\* selected earlier.
C15_Witness ==
    /\ error = Some(MsgNotAnImage)
    /\ IsSome(lastFileMeta)
    /\ sunk = << >>
    /\ ~isDestroyed

\* C17: the first pass encodes at quality 0.85 and the initial scale; on
\* every pass quality is one of 0.85, 0.75, 0.65, 0.55; an over-budget pass
\* at quality above 0.55 lowers quality by 0.10 (not below 0.55) and leaves
\* scale alone, an over-budget pass at quality 0.55 multiplies scale by 0.85
\* and leaves quality alone; so scale is reduced only at quality 0.55.
\* (quality in hundredths, scale as the count of its reductions)
C17_QualityBeforeScale ==
    [][/\ \A j \in DOMAIN tasks' :
             tasks'[j].pc \in {"encoding", "rereading"}
             => /\ tasks'[j].quality \in {85, 75, 65, 55}
                /\ tasks'[j].pass = 0
                      => (tasks'[j].quality = 85 /\ tasks'[j].shrinks = 0)
                /\ tasks'[j].shrinks > 0 => tasks'[j].quality = 55
       /\ \A i \in DOMAIN tasks :
             (/\ Len(tasks') = Len(tasks)
              /\ tasks[i].pc = "encoding"
              /\ tasks'[i].pass = tasks[i].pass + 1)
             => IF tasks[i].quality > 55
                THEN /\ tasks'[i].quality = Max2(55, tasks[i].quality - 10)
                     /\ tasks'[i].shrinks = tasks[i].shrinks
                ELSE /\ tasks'[i].quality = tasks[i].quality
                     /\ tasks'[i].shrinks = tasks[i].shrinks + 1]_vars

\* C17 witness: the pass after the first reduction of scale, the fifth.
C17_Witness ==
    \E j \in DOMAIN tasks :
        /\ tasks[j].pc = "encoding"
        /\ tasks[j].pass = 4
        /\ tasks[j].quality = 55
        /\ tasks[j].shrinks = 1

\* C18: no ingestion makes more than 10 encode passes; a pass whose blob is
\* of exactly the budget succeeds, its blob is read back and no further
\* pass is made; the read-back hands the sink the data URL of that blob; an
\* over-budget pass is followed by the next pass while fewer than 10 were
\* made, and the tenth over-budget pass ends the ingestion with the
\* too-large message and no sink call.
C18_SearchEndsWithinTenPasses ==
    [][/\ \A j \in DOMAIN tasks' : tasks'[j].pass < 10
       /\ \A i \in DOMAIN tasks :
             /\ \A c \in BOOLEAN :
                   (IsSome(maxEncodedKB)
                      /\ EncodeDone(i, Some(Get(maxEncodedKB) * 1024), c))
                   => /\ Len(tasks') = Len(tasks)
                      /\ tasks'[i].pc = "rereading"
                      /\ tasks'[i].pass = tasks[i].pass
                      /\ tasks'[i].blob = Get(maxEncodedKB) * 1024
                      /\ ended' = None
             /\ (IsSome(maxEncodedKB)
                   /\ EncodeDone(i, Some(Get(maxEncodedKB) * 1024 + 1), TRUE))
                   => IF tasks[i].pass = 9
                      THEN /\ ended' = Some([file |-> tasks[i].file.name,
                                             over |-> 10])
                           /\ sunk' = << >>
                           /\ IsSome(error')
                           /\ Get(error').kind = "TooLargeToStore"
                      ELSE /\ ended' = None
                           /\ Len(tasks') = Len(tasks)
                           /\ tasks'[i].pc = "encoding"
                           /\ tasks'[i].pass = tasks[i].pass + 1
             /\ (tasks[i].pc = "rereading" /\ Len(tasks') >= Len(tasks))
                   => tasks'[i] = tasks[i]
             /\ BlobReadDone(i, TRUE)
                   => /\ sunk' = << [kind |-> "data",
                                      mime |-> "image/jpeg",
                                      len  |-> 23 + 4 * CeilDiv(tasks[i].blob, 3),
                                      of   |-> tasks[i].file.name] >>
                      /\ ended' = Some([file |-> tasks[i].file.name,
                                        over |-> tasks[i].pass])]_vars

\* C18 witness: the tenth pass fitted the budget, after nine over it, and
\* its encoding was handed to the sink.
C18_Witness ==
    IsSome(ended) /\ Get(ended).over = 9 /\ Len(sunk) = 1

\* a / b <= c / d for a, c >= 0 and b, d > 0, by the integer parts and then
\* the reciprocals of the remainders (no product of the four is formed).
RECURSIVE FracLeq(_, _, _, _)
FracLeq(a, b, c, d) ==
    IF a \div b # c \div d THEN a \div b < c \div d
    ELSE IF a % b = 0 THEN TRUE
    ELSE IF c % d = 0 THEN FALSE
    ELSE FracLeq(d, c % d, b, a % b)

\* C19: whenever a pass renders its canvas, for every source raster and
\* maxDimension: the initial scale is min(1, maxDimension / longest), the
\* scale of the pass is in (0, 1] and not above that of the pass before, and
\* the canvas is at least 1 x 1 with its longest side <= maxDimension.
C19_RasterWithinMaxDimension ==
    [][\A i \in DOMAIN tasks :
          (/\ Len(tasks') = Len(tasks)
           /\ tasks'[i] # tasks[i]
           /\ tasks'[i].pc = "encoding")
          => /\ tasks[i].pc = "loading" => tasks'[i].shrinks = 0
             /\ \A img \in Rasters, d \in MaxDimensionChoices :
                   LET longest == Max2(img.w, img.h)
                       first == ScaleAfter(img, d, 0)
                       before == ScaleAfter(img, d, tasks[i].shrinks)
                       scale == ScaleAfter(img, d, tasks'[i].shrinks)
                       w == CanvasSide(img.w, scale)
                       h == CanvasSide(img.h, scale)
                   IN  /\ IF longest > d
                          THEN first.num * longest = d * first.den
                          ELSE first.num = first.den
                       /\ 0 < scale.num
                       /\ scale.num <= scale.den
                       /\ FracLeq(scale.num, scale.den, before.num, before.den)
                       /\ w >= 1
                       /\ h >= 1
                       /\ Max2(w, h) <= d]_vars

\* C19 witness: a pass rendered after six reductions of scale, where the
\* short side of the 16 x 1 raster would round to 0.
C19_Witness ==
    \E j \in DOMAIN tasks :
        /\ tasks[j].pc = "encoding"
        /\ tasks[j].shrinks = 6
        /\ Round(1 * ScaleAfter(Raster(16, 1), 4, 6).num,
                 ScaleAfter(Raster(16, 1), 4, 6).den) = 0

\* C20: with maxEncodedKB configured, the successful read of a file starts
\* the compression search exactly when the byte length of its data URL is
\* above maxEncodedKB * 1024; otherwise, at equality too, that data URL is
\* handed to the sink as read and the ingestion ends without a pass.
C20_CompressOnlyAboveBudget ==
    [][\A i \in DOMAIN tasks :
          (IsSome(maxEncodedKB) /\ ReadDone(i, TRUE))
          => LET f == tasks[i].file
                 raw == [kind |-> "data",
                         mime |-> f.type,
                         len  |-> Len("data:") + Len(f.type) + Len(";base64,")
                                    + 4 * CeilDiv(f.size, 3),
                         of   |-> f.name]
             IN  IF raw.len > Get(maxEncodedKB) * 1024
                 THEN /\ Len(tasks') = Len(tasks)
                      /\ tasks'[i].pc = "loading"
                      /\ sunk' = << >>
                      /\ ended' = None
                 ELSE /\ sunk' = << raw >>
                      /\ ended' = Some([file |-> f.name, over |-> 0])
                      /\ Len(tasks') = Len(tasks) - 1]_vars

\* C20 witness: a data URL of exactly the budget was handed to the sink.
C20_Witness ==
    /\ IsSome(maxEncodedKB)
    /\ Len(sunk) = 1
    /\ sunk[1].kind = "data"
    /\ sunk[1].len = Get(maxEncodedKB) * 1024
    /\ IsSome(ended)
    /\ Get(ended).over = 0

\* C16: the promise of a confirmPopup call is resolved at most once and its
\* value never changes; a result event carrying the id of a call whose
\* listener is registered resolves that call with the event's ok and
\* removes its listener; a result event carrying another id, or no detail,
\* or arriving when the listener is gone, changes nothing of the call.
C16_ResolvesOnceOnOwnId ==
    [][\A id \in 1..MaxConfirms :
          /\ resolves'[id] <= 1
          /\ promise[id] # None => promise'[id] = promise[id]
          /\ \A e \in ResultIds, ok \in BOOLEAN :
                emitConfirmResult(e, ok)
                => IF e = id /\ id \in listeners
                   THEN /\ promise[id] = None
                        /\ promise'[id] = Some(ok)
                        /\ resolves'[id] = 1
                        /\ id \notin listeners'
                   ELSE /\ promise'[id] = promise[id]
                        /\ resolves'[id] = resolves[id]
                        /\ (id \in listeners') = (id \in listeners)
          /\ ResultEventWithoutDetail
                => /\ promise'[id] = promise[id]
                   /\ resolves'[id] = resolves[id]
                   /\ (id \in listeners') = (id \in listeners)]_vars

\* C16 witness: a call resolved with true has just been sent a second result
\* event with its id, carrying false, and is still resolved with true, once.
C16_Witness ==
    \E id \in 1..MaxConfirms :
        /\ promise[id] = Some(TRUE)
        /\ resolves[id] = 1
        /\ id \notin listeners
        /\ lastEvent = Some(Some([id |-> id, ok |-> FALSE]))

\* C21: the object URLs created and not yet revoked are as many as the
\* image loads in progress, never fewer than none; with no image load in
\* progress every URL created has been revoked, once.
C21_ObjectUrlsRevoked ==
    /\ objectUrls >= 0
    /\ objectUrls = Cardinality({i \in DOMAIN tasks : tasks[i].pc = "loading"})

\* C21 witness: the raster of an ingestion failed to load (the ingestion
\* ended inside compressToFit before any over-budget pass) and no object URL
\* is left.
C21_Witness ==
    /\ IsSome(ended)
    /\ Get(ended).over = 0
    /\ IsSome(error)
    /\ Get(error).kind = "TooLargeToStore"
    /\ tasks = << >>
    /\ objectUrls = 0

Range(seq) == {seq[i] : i \in DOMAIN seq}

\* C24: the requests ConfirmViewport received are, in the order received,
\* those it has answered followed by those it holds; none is received or
\* answered twice; the dialog shown is the oldest unanswered one and closing
\* it dispatches one result event carrying that request's id and the answer
\* given; nothing but closing a dialog answers a request; and a request
\* received is answered once the user answers the dialogs shown.
C24_ServesOldestFirst ==
    /\ [][/\ received' = answered' \o queue'
          /\ Cardinality(Range(received')) = Len(received')
          /\ \A ok \in BOOLEAN :
                closeWith(ok)
                => /\ Get(active) = received[Len(answered) + 1]
                   /\ lastEvent' = Some(ResultDetail(Get(active), ok))
                   /\ answered' = Append(answered, Get(active))
          /\ answered' # answered => \E ok \in BOOLEAN : closeWith(ok)]_vars
    /\ \A id \in 1..MaxConfirms :
          (id \in Range(received)) ~> (id \in Range(answered))

\* C24 witness: three requests were received, the later ones while a dialog
\* was open; the first was confirmed, the second cancelled, and the third
\* is the dialog shown.
C24_Witness ==
    /\ received = << 1, 2, 3 >>
    /\ answered = << 1, 2 >>
    /\ queue = << 3 >>
    /\ promise[1] = Some(TRUE)
    /\ promise[2] = Some(FALSE)
    /\ promise[3] = None

\* C25 as stated: every confirmPopup call made is at some later time
\* resolved, the mount effect of the viewport running and the user answering
\* every dialog shown.
C25_EveryCallResolves ==
    \A id \in 1..MaxConfirms : (issued >= id) ~> (promise[id] # None)

\* C26 as stated: from the completion of a logout whose signOut succeeded,
\* until a login() called after it succeeds, user is null.
C26_NullAfterLogout == loggedOut => user = None

\* C27: a login whose signIn rejects, or whose getCurrentUser rejects, ends
\* rejected with user as it was; a login whose signIn resolves with
\* isSignedIn false ends resolved with user as it was; signup, confirmSignup
\* and resendSignupCode never change user and end rejected when their call
\* fails; a logout whose signOut rejects ends resolved with user as it was;
\* and no step that rejects an operation's promise changes user.
C27_FailureKeepsUser ==
    [][/\ \A i \in 1..MaxAuthTasks :
            /\ SignInDone(i, "rejected")
                  => user' = user /\ settled' = Settled("login", "rejected")
            /\ SignInDone(i, "notSignedIn")
                  => user' = user /\ settled' = Settled("login", "resolved")
            /\ (GetCurrentUserDone(i, FALSE) /\ authTasks[i].op = "login")
                  => user' = user /\ settled' = Settled("login", "rejected")
            /\ SignOutDone(i, FALSE)
                  => user' = user /\ settled' = Settled("logout", "resolved")
            /\ \A ok \in BOOLEAN :
                  SignUpStepDone(i, ok)
                  => /\ user' = user
                     /\ Get(settled').outcome
                            = (IF ok THEN "resolved" ELSE "rejected")
       /\ (IsSome(settled') /\ Get(settled').outcome = "rejected")
             => user' = user]_vars

\* C27 witness: a login has just been rejected while a user is signed in,
\* and that user is still there.
C27_Witness ==
    /\ IsSome(user)
    /\ settled = Settled("login", "rejected")

\* C28 as stated: a getAllReadingLists call never ends rejected.
C28_NeverRejects == IsSome(returned) => Get(returned).outcome = "resolved"

\* C29 as stated: a list whose deleteReadingList resolved on this page is
\* not among the lists displayed, from then on.
C29_DeletedStaysAbsent == \A id \in deleted : id \notin ListIds(lists)

\* C30: with pagination enabled, totalPages is the least n >= 1 with
\* n * pageSize >= |filtered|; 1 <= effectivePage <= totalPages;
\* 0 <= startIndex <= endIndex <= |filtered|; the options shown are those
\* of filtered at the places startIndex (included) to endIndex (excluded),
\* in order; they are at most pageSize, and at least one when filtered is
\* not empty.
C30_PageWithinBounds ==
    isPaginationEnabled =>
        /\ totalPages >= 1
        /\ totalPages * Get(pageSize) >= Len(filteredOptions)
        /\ totalPages > 1
              => (totalPages - 1) * Get(pageSize) < Len(filteredOptions)
        /\ 1 <= effectivePage
        /\ effectivePage <= totalPages
        /\ 0 <= startIndex
        /\ startIndex <= endIndex
        /\ endIndex <= Len(filteredOptions)
        /\ Len(paginatedOptions) = endIndex - startIndex
        /\ \A k \in 1..(endIndex - startIndex) :
              paginatedOptions[k] = filteredOptions[startIndex + k]
        /\ Len(paginatedOptions) <= Get(pageSize)
        /\ filteredOptions # << >> => paginatedOptions # << >>

\* C30 witness: the options list shrank under a menu showing a later page
\* of a search, so that currentPage is beyond the last page, and options
\* are shown still.
C30_Witness ==
    /\ isOpen
    /\ isPaginationEnabled
    /\ query # << >>
    /\ currentPage > totalPages
    /\ Len(filteredOptions) < Len(options)
    /\ filteredOptions # << >>
====
